---- MODULE Spec2Model ----
(***************************************************************************)
(* InfinitePIP: the per-overlay capture session (InfinitePIPWindow), its   *)
(* capture loop thread, the Tk UI thread that runs the posted callbacks    *)
(* and the interactive handlers, and the session manager                   *)
(* (InfinitePIPModernUI) with its active_pips list.                        *)
(*                                                                         *)
(* A ratio is kept as the reduced fraction [n, d] whose nearest double the *)
(* program holds; products and quotients with it are computed as the       *)
(* doubles compute them (binary64, round to nearest even) and int()        *)
(* truncates the result.                                                   *)
(* winfo_width / winfo_height of the overlay and of its canvas (which      *)
(* fills the overlay) are the overlay's current geometry.                  *)
(***************************************************************************)
EXTENDS Integers, Sequences, FiniteSets, TLC

(* ------------------------------ bounds -------------------------------- *)
MaxSessions == 2
MaxQueue == 2
MaxDicts == 3
MaxEvents == 2
MaxReplies == 3
SoloSessions == 1
PairEvents == 1
PairQueue == 1
LiveEvents == 1
GeomEvents == 3
ScreenW == 700
ScreenH == 500

(* ------------------------- program constants -------------------------- *)
MinWidth == 200
MinHeight == 150
InitialWidth == 400
DefaultHeight == 300
PlaceholderWidth == 400
PlaceholderHeight == 300
CornerSize == 20
EdgeSize == 10
ClientFloor == 100

Sessions == 1..MaxSessions
Handles == {"n", "s", "e", "w", "ne", "nw", "se", "sw"}
NoCorner == "None"

(* ----------------------------- rationals ------------------------------ *)
RECURSIVE GCD(_, _)
GCD(a, b) == IF b = 0 THEN a ELSE GCD(b, a % b)

Abs(i) == IF i < 0 THEN -i ELSE i
Max(a, b) == IF a >= b THEN a ELSE b
Min(a, b) == IF a <= b THEN a ELSE b

\* None: the value of source_aspect_ratio before any ratio is known
NoRatio == [n |-> 0, d |-> 0]

\* width / height as a float; the caller guarantees h # 0
Ratio(w, h) == LET g == GCD(w, h) IN [n |-> w \div g, d |-> h \div g]

\* Python truthiness of a ratio: None and 0.0 are falsy
Truthy(r) == r.n > 0

\* abs(a - b) > 0.01
RatioDiffers(a, b) == 100 * Abs(a.n * b.d - b.n * a.d) > a.d * b.d

(* ------------------------- binary64 arithmetic ------------------------ *)
\* Python's float is an IEEE 754 double: 53 significant bits, every
\* operation rounded to nearest, ties to even.  A natural number of up to 75
\* bits is five limbs of 15 bits, least significant first; a positive double
\* is [m, e] with 2^52 <= m < 2^53 and value m * 2^e, zero is [BigZero, 0].
Limb == 32768
LimbCount == 5
MantissaBits == 53

BigZero == <<0, 0, 0, 0, 0>>
BigOf(n) ==
    <<n % Limb, (n \div Limb) % Limb, n \div (Limb * Limb), 0, 0>>

RECURSIVE BigCmp(_, _, _)
\* -1, 0, 1 as the limbs i..1 of a are below, equal to, above those of b
BigCmp(a, b, i) ==
    IF i = 0 THEN 0
    ELSE IF a[i] > b[i] THEN 1
    ELSE IF a[i] < b[i] THEN -1
    ELSE BigCmp(a, b, i - 1)

BigGE(a, b) == BigCmp(a, b, LimbCount) >= 0

\* the limbs are written out: a tuple is a value, where a function
\* constructor would be evaluated again at every application
BigShl1(a) ==
    <<(2 * a[1]) % Limb,
      ((2 * a[2]) % Limb) + ((2 * a[1]) \div Limb),
      ((2 * a[3]) % Limb) + ((2 * a[2]) \div Limb),
      ((2 * a[4]) % Limb) + ((2 * a[3]) \div Limb),
      ((2 * a[5]) % Limb) + ((2 * a[4]) \div Limb)>>

BigShr1(a) ==
    <<(a[1] \div 2) + (a[2] % 2) * (Limb \div 2),
      (a[2] \div 2) + (a[3] % 2) * (Limb \div 2),
      (a[3] \div 2) + (a[4] % 2) * (Limb \div 2),
      (a[4] \div 2) + (a[5] % 2) * (Limb \div 2),
      a[5] \div 2>>

\* a - b, for a >= b
BigSub(a, b) ==
    LET d1 == a[1] - b[1]
        d2 == a[2] - b[2] - (IF d1 < 0 THEN 1 ELSE 0)
        d3 == a[3] - b[3] - (IF d2 < 0 THEN 1 ELSE 0)
        d4 == a[4] - b[4] - (IF d3 < 0 THEN 1 ELSE 0)
        d5 == a[5] - b[5] - (IF d4 < 0 THEN 1 ELSE 0)
    IN  <<(d1 + Limb) % Limb, (d2 + Limb) % Limb, (d3 + Limb) % Limb,
          (d4 + Limb) % Limb, (d5 + Limb) % Limb>>

\* a * n, for n < Limb
BigMulSmall(a, n) ==
    LET p1 == a[1] * n
        p2 == a[2] * n + (p1 \div Limb)
        p3 == a[3] * n + (p2 \div Limb)
        p4 == a[4] * n + (p3 \div Limb)
        p5 == a[5] * n + (p4 \div Limb)
    IN  <<p1 % Limb, p2 % Limb, p3 % Limb, p4 % Limb, p5 % Limb>>

\* a + 1
BigInc(a) ==
    LET s1 == a[1] + 1
        s2 == a[2] + (s1 \div Limb)
        s3 == a[3] + (s2 \div Limb)
        s4 == a[4] + (s3 \div Limb)
        s5 == a[5] + (s4 \div Limb)
    IN  <<s1 % Limb, s2 % Limb, s3 % Limb, s4 % Limb, s5 % Limb>>

\* limb i of a, zero outside the five limbs
LimbAt(a, i) == IF i \in 1..LimbCount THEN a[i] ELSE 0

\* floor(a / 2^k)
BigShr(a, k) ==
    LET j == k \div 15
        lo == 2 ^ (k % 15)
        hi == 2 ^ (15 - (k % 15))
        at(i) == (LimbAt(a, i + j) \div lo) + (LimbAt(a, i + j + 1) % lo) * hi
    IN  <<at(1), at(2), at(3), at(4), at(5)>>

\* a * 2^k, below 2^75
BigShl(a, k) ==
    LET j == k \div 15
        lo == 2 ^ (k % 15)
        at(i) == ((LimbAt(a, i - j) * lo) % Limb)
                   + ((LimbAt(a, i - j - 1) * lo) \div Limb)
    IN  <<at(1), at(2), at(3), at(4), at(5)>>

\* the number of bits of a
BitLength(a) ==
    IF a = BigZero THEN 0
    ELSE LET top == CHOOSE i \in 1..LimbCount :
                        a[i] > 0 /\ \A h \in (i + 1)..LimbCount : a[h] = 0
             bits == CHOOSE b \in 1..15 : 2 ^ (b - 1) <= a[top] /\ a[top] < 2 ^ b
         IN  15 * (top - 1) + bits

\* the value of a big number below 2^30
BigToInt(a) == a[1] + Limb * a[2]

\* n' and d' with d' <= n' < 2 * d' and n / d = (n' / d') * 2^e', for n, d > 0
Normalise(n, d) ==
    LET shift == BitLength(n) - BitLength(d)
        n1 == IF shift < 0 THEN BigShl(n, 0 - shift) ELSE n
        d1 == IF shift > 0 THEN BigShl(d, shift) ELSE d
    IN  IF BigGE(n1, d1)
        THEN [n |-> n1, d |-> d1, e |-> shift]
        ELSE [n |-> BigShl1(n1), d |-> d1, e |-> shift - 1]

\* the one element of a singleton
TheOne(S) == CHOOSE x \in S : TRUE

\* one more quotient bit of r / d shifted into q, for r < d
DivBit(st, d) ==
    LET r2 == BigShl1(st.r)
        q2 == BigShl1(st.q)
    IN  IF BigGE(r2, d)
        THEN [q |-> BigInc(q2), r |-> BigSub(r2, d)]
        ELSE [q |-> q2, r |-> r2]

RECURSIVE DivBits(_, _, _)
\* 4 * k more quotient bits.  Every intermediate result is bound as the
\* element of a singleton: a bound variable holds a value, where an operator
\* argument or a LET definition is an expression evaluated at each use.
DivBits(st, d, k) ==
    IF k = 0 THEN st
    ELSE TheOne({DivBits(s4, d, k - 1) :
                   s4 \in {DivBit(s3, d) :
                   s3 \in {DivBit(s2, d) :
                   s2 \in {DivBit(s1, d) :
                   s1 \in {DivBit(st, d)}}}}})

FloatZero == [m |-> BigZero, e |-> 0]

\* the quotient q with remainder r rounded to nearest, ties to even, as the
\* double q * 2^e
Rounded(qr, d, e) ==
    LET half == BigCmp(BigShl1(qr.r), d, LimbCount)
        up == half = 1 \/ (half = 0 /\ qr.q[1] % 2 = 1)
        q == IF up THEN BigInc(qr.q) ELSE qr.q
    IN  IF q[4] >= 256
        THEN [m |-> BigShr1(q), e |-> e + 1]
        ELSE [m |-> q, e |-> e]

\* the double nearest to (n / d) * 2^e0
RoundDivOf(n, d, e0) ==
    IF n = BigZero THEN FloatZero
    ELSE TheOne({
           TheOne({Rounded(qr, nd.d, nd.e - (MantissaBits - 1) + e0) :
                     qr \in {DivBits([q |-> BigOf(1),
                                      r |-> BigSub(nd.n, nd.d)],
                                     nd.d, (MantissaBits - 1) \div 4)}}) :
             nd \in {Normalise(n, d)}})

\* RoundDivOf of the values of its arguments
RoundDiv(n, d, e0) ==
    TheOne({RoundDivOf(a, b, c) : a \in {n}, b \in {d}, c \in {e0}})

\* p / q of two ints
FloatDiv(p, q) == RoundDiv(BigOf(p), BigOf(q), 0)
\* n * x and n / x of an int and a double
IntTimesFloat(n, x) ==
    TheOne({RoundDiv(BigMulSmall(v.m, n), BigOf(1), v.e) : v \in {x}})
IntOverFloat(n, x) ==
    TheOne({RoundDiv(BigOf(n), v.m, 0 - v.e) : v \in {x}})
\* x > y, of the values v and w of two doubles
FloatAbove(v, w) ==
    IF w = FloatZero THEN v # FloatZero
    ELSE IF v = FloatZero THEN FALSE
    ELSE v.e > w.e \/ (v.e = w.e /\ BigCmp(v.m, w.m, LimbCount) = 1)
FloatGreater(x, y) == \E v \in {x} : \E w \in {y} : FloatAbove(v, w)
\* int(x), for 0 <= x < 2^30
FloatToInt(x) ==
    TheOne({IF v = FloatZero THEN 0
            ELSE IF v.e >= 0 THEN BigToInt(BigMulSmall(v.m, 2 ^ v.e))
            ELSE BigToInt(BigShr(v.m, 0 - v.e)) : v \in {x}})

\* a + b
BigAdd(a, b) ==
    LET s1 == a[1] + b[1]
        s2 == a[2] + b[2] + (s1 \div Limb)
        s3 == a[3] + b[3] + (s2 \div Limb)
        s4 == a[4] + b[4] + (s3 \div Limb)
        s5 == a[5] + b[5] + (s4 \div Limb)
    IN  <<s1 % Limb, s2 % Limb, s3 % Limb, s4 % Limb, s5 % Limb>>

\* a double with its sign
Signed(neg, x) == [neg |-> neg, v |-> x]
\* the value v of a double below 2 in units of 2^-56: exact for every double
\* from 2^-4 up and for every sum or difference of two of them
FixedOf(v) ==
    IF v.e + 56 >= 0 THEN BigShl(v.m, v.e + 56) ELSE BigShr(v.m, 0 - (v.e + 56))
\* a + b and a - b as Python adds two doubles
SumOf(a, b, minus) ==
    IF ~minus THEN Signed(FALSE, RoundDiv(BigAdd(a, b), BigOf(1), -56))
    ELSE IF BigGE(a, b) THEN Signed(FALSE, RoundDiv(BigSub(a, b), BigOf(1), -56))
    ELSE Signed(TRUE, RoundDiv(BigSub(b, a), BigOf(1), -56))
\* x + d for a double x >= 0 and a signed double d
FloatAdd(x, d) ==
    TheOne({SumOf(a, b, d.neg) : a \in {FixedOf(x)}, b \in {FixedOf(d.v)}})

\* the frame of the given aspect fitted to the target
FitTo(original_aspect, target_aspect, target_width, target_height) ==
    IF FloatGreater(original_aspect, target_aspect)
    THEN LET new_width ==
                 FloatToInt(IntTimesFloat(target_height, original_aspect))
             crop_x == (new_width - target_width) \div 2
         IN  [scaled |-> <<new_width, target_height>>,
              box |-> <<crop_x, 0, crop_x + target_width, target_height>>,
              size |-> <<target_width, target_height>>]
    ELSE LET new_height ==
                 FloatToInt(IntOverFloat(target_width, original_aspect))
             crop_y == (new_height - target_height) \div 2
         IN  [scaled |-> <<target_width, new_height>>,
              box |-> <<0, crop_y, target_width, crop_y + target_height>>,
              size |-> <<target_width, target_height>>]

\* resize_image_maintain_aspect(img, target_width, target_height): the size
\* the frame is scaled to, the crop box taken from it and the size of the
\* bitmap returned (Image.crop returns the size of its box)
resize_image_maintain_aspect(img, target_width, target_height) ==
    TheOne({FitTo(original_aspect, target_aspect,
                  target_width, target_height) :
              original_aspect \in {FloatDiv(img[1], img[2])},
              target_aspect \in {FloatDiv(target_width, target_height)}})

\* int(x / r) and int(x * r) for 0 <= x < 2^15 and a truthy r, the ratio r
\* being the double nearest to r.n / r.d.  The double quotient is within
\* 2^-30 of x * r.d / r.n, which is either an integer or at least 1 / r.n
\* away from one: only in the first case can the rounding of the doubles
\* change the integer part, and only then are the doubles computed.
DivRatio(x, r) ==
    IF (x * r.d) % r.n = 0
    THEN FloatToInt(IntOverFloat(x, FloatDiv(r.n, r.d)))
    ELSE (x * r.d) \div r.n
MulRatio(x, r) ==
    IF (x * r.n) % r.d = 0
    THEN FloatToInt(IntTimesFloat(x, FloatDiv(r.n, r.d)))
    ELSE (x * r.n) \div r.d

(* ----------------------- overlay geometry math ------------------------ *)
HasE(c) == c \in {"e", "ne", "se"}
HasW(c) == c \in {"w", "nw", "sw"}
HasN(c) == c \in {"n", "ne", "nw"}
HasS(c) == c \in {"s", "se", "sw"}

Geom(w, h, x, y) == [w |-> w, h |-> h, x |-> x, y |-> y]

\* width drives: height derived, floored, width re-derived
WidthDriven(new_width, r) ==
    TheOne({<<MulRatio(h, r), h>> :
              h \in {Max(MinHeight, DivRatio(new_width, r))}})

\* height drives: width derived, floored, height re-derived
HeightDriven(new_height, r) ==
    TheOne({<<w, DivRatio(w, r)>> :
              w \in {Max(MinWidth, MulRatio(new_height, r))}})

\* constrain_aspect_ratio without the position correction of lines 263-272:
\* the origin handle_resize proposed is returned
constrain_aspect_ratio_drifting(corner, new, cur, r) ==
    TheOne({Geom(wh[1], wh[2], new.x, new.y) :
              wh \in {IF corner \in {"e", "w"} THEN WidthDriven(new.w, r)
                      ELSE IF corner \in {"n", "s"}
                      THEN HeightDriven(new.h, r)
                      ELSE IF Abs(new.w - cur.w) > Abs(new.h - cur.h)
                      THEN WidthDriven(new.w, r)
                      ELSE HeightDriven(new.h, r)}})

\* constrain_aspect_ratio letting the width drive a corner drag whose two
\* changes are equal
constrain_aspect_ratio_ties(corner, new, cur, r) ==
    TheOne({Geom(wh[1], wh[2],
                 IF HasW(corner) THEN cur.x - (wh[1] - cur.w) ELSE new.x,
                 IF HasN(corner) THEN cur.y - (wh[2] - cur.h) ELSE new.y) :
              wh \in {IF corner \in {"e", "w"} THEN WidthDriven(new.w, r)
                      ELSE IF corner \in {"n", "s"}
                      THEN HeightDriven(new.h, r)
                      ELSE IF Abs(new.w - cur.w) >= Abs(new.h - cur.h)
                      THEN WidthDriven(new.w, r)
                      ELSE HeightDriven(new.h, r)}})

\* constrain_aspect_ratio(new_width, new_height, new_x, new_y, current_x,
\* current_y) for the dragged corner, the overlay's current size (win) and
\* the tracked ratio r
constrain_aspect_ratio(corner, new, cur, r) ==
    TheOne({Geom(wh[1], wh[2],
                 IF HasW(corner) THEN cur.x - (wh[1] - cur.w) ELSE new.x,
                 IF HasN(corner) THEN cur.y - (wh[2] - cur.h) ELSE new.y) :
              wh \in {IF corner \in {"e", "w"} THEN WidthDriven(new.w, r)
                      ELSE IF corner \in {"n", "s"}
                      THEN HeightDriven(new.h, r)
                      ELSE IF Abs(new.w - cur.w) > Abs(new.h - cur.h)
                      THEN WidthDriven(new.w, r)
                      ELSE HeightDriven(new.h, r)}})

\* the geometry handle_resize proposes before the ratio constraint
ProposedGeometry(corner, cur, deltax, deltay) ==
    LET nw == IF HasE(corner) THEN Max(MinWidth, cur.w + deltax)
              ELSE IF HasW(corner) THEN Max(MinWidth, cur.w - deltax)
              ELSE cur.w
        nx == IF (~HasE(corner)) /\ HasW(corner) THEN cur.x + deltax ELSE cur.x
        nh == IF HasS(corner) THEN Max(MinHeight, cur.h + deltay)
              ELSE IF HasN(corner) THEN Max(MinHeight, cur.h - deltay)
              ELSE cur.h
        ny == IF (~HasS(corner)) /\ HasN(corner) THEN cur.y + deltay ELSE cur.y
    IN  Geom(nw, nh, nx, ny)

\* handle_resize with the ratio constraint applied whenever a ratio is known
ResizedGeometry_always(corner, cur, deltax, deltay, r, maintain) ==
    LET new == ProposedGeometry(corner, cur, deltax, deltay)
    IN  IF Truthy(r)
        THEN constrain_aspect_ratio(corner, new, cur, r)
        ELSE new

\* the geometry handle_resize applies
ResizedGeometry(corner, cur, deltax, deltay, r, maintain) ==
    LET new == ProposedGeometry(corner, cur, deltax, deltay)
    IN  IF Truthy(r) /\ maintain
        THEN constrain_aspect_ratio(corner, new, cur, r)
        ELSE new

\* update_pip_window_size always keeping the width
MatchedGeometry_narrow(cur, r) ==
    Geom(cur.w, Max(MinHeight, DivRatio(cur.w, r)), cur.x, cur.y)

\* the geometry update_pip_window_size applies for a truthy ratio
MatchedGeometry(cur, r) ==
    TheOne({IF 2 * Abs(nh - cur.h) > cur.h
            THEN TheOne({Geom(nw, DivRatio(nw, r), cur.x, cur.y) :
                           nw \in {Max(MinWidth, MulRatio(cur.h, r))}})
            ELSE Geom(cur.w, nh, cur.x, cur.y) :
              nh \in {Max(MinHeight, DivRatio(cur.w, r))}})

\* get_resize_corner testing the edge zones before the corner zones
get_resize_corner_edges_first(x, y, width, height) ==
    IF y <= EdgeSize THEN "n"
    ELSE IF y >= height - EdgeSize THEN "s"
    ELSE IF x >= width - EdgeSize THEN "e"
    ELSE IF x <= EdgeSize THEN "w"
    ELSE IF x >= width - CornerSize /\ y >= height - CornerSize THEN "se"
    ELSE IF x <= CornerSize /\ y >= height - CornerSize THEN "sw"
    ELSE IF x >= width - CornerSize /\ y <= CornerSize THEN "ne"
    ELSE IF x <= CornerSize /\ y <= CornerSize THEN "nw"
    ELSE NoCorner

\* get_resize_corner(x, y) against the overlay's current size
get_resize_corner(x, y, width, height) ==
    IF x >= width - CornerSize /\ y >= height - CornerSize THEN "se"
    ELSE IF x <= CornerSize /\ y >= height - CornerSize THEN "sw"
    ELSE IF x >= width - CornerSize /\ y <= CornerSize THEN "ne"
    ELSE IF x <= CornerSize /\ y <= CornerSize THEN "nw"
    ELSE IF y <= EdgeSize THEN "n"
    ELSE IF y >= height - EdgeSize THEN "s"
    ELSE IF x >= width - EdgeSize THEN "e"
    ELSE IF x <= EdgeSize THEN "w"
    ELSE NoCorner

\* calculate_aspect_ratio: the ratio of the declared size (None when the
\* division raises) and the initial overlay size
DeclaredRatio(w, h) == IF h = 0 THEN NoRatio ELSE Ratio(w, h)

InitialSize(r) ==
    IF Truthy(r)
    THEN TheOne({IF h < MinHeight
                 THEN <<MulRatio(MinHeight, r), MinHeight>>
                 ELSE <<InitialWidth, h>> :
                   h \in {DivRatio(InitialWidth, r)}})
    ELSE <<InitialWidth, DefaultHeight>>

(* ------------------------------- state -------------------------------- *)
VARIABLES
    pip,            \* the InfinitePIPWindow objects, by session
    thr,            \* each session's capture thread: position and local img
    ui_queue,       \* callbacks posted with after(0, ...), oldest first
    ui,             \* the UI thread: the handler in progress
    active_pips,    \* InfinitePIPModernUI.active_pips
    windows,        \* InfinitePIPModernUI.windows: references to dicts
    heap,           \* the window_data dicts, by reference
    displayed_count,\* the count update_status last displayed
    root_alive,     \* the application's root window exists
    os_win,         \* the captured application window, as the OS reports it
    capture_available, \* WINDOWS_CAPTURE_AVAILABLE
    events,         \* number of OS-window, toggle and pointer-motion events so far
    limits,         \* the bounds of the specification in force
    replies,        \* the answers the remote control handler has sent
    selector        \* the ScreenAreaSelector of the visual region selection

vars == <<pip, thr, ui_queue, ui, active_pips, windows, heap, displayed_count,
          root_alive, os_win, capture_available, events, limits, replies, selector>>

NoImg == <<0, 0>>
NoSize == <<0, 0>>
Placeholder == <<PlaceholderWidth, PlaceholderHeight>>

\* the sizes the captured window takes: full rectangle and client area
Shapes == <<
    [rect |-> <<1280, 720>>, client |-> <<1280, 720>>],
    [rect |-> <<1281, 720>>, client |-> <<80, 60>>],
    [rect |-> <<1280, 960>>, client |-> <<1280, 960>>],
    [rect |-> <<160, 0>>, client |-> <<0, 0>>],
    [rect |-> <<300, 1000>>, client |-> <<300, 1000>>] >>

\* the shapes the window may have when the application starts, and those
\* it takes in every specification; the portrait shape is taken where the
\* overlay is matched to the source
InitialShapes == {1, 4}
UsualShapes == 1..4
PortraitShape == 5

Lefts == {0, 40}
RegionRect == <<0, 0, 800, 600>>
MonitorRect == <<0, 0, 1920, 1080>>

\* the sizes of the regions the overlay is created on, and the pointer moves
DeclaredSizes == {<<1920, 1080>>, <<300, 1000>>}
DragDeltas == {-200, -75, 130}

\* the sizes of the captured frames and of the canvases they are fitted to
FrameSizes == {<<1280, 720>>, <<620, 300>>, <<310, 150>>, <<300, 1000>>,
               <<1280, 960>>, <<1281, 720>>}
CanvasSizes == {200, 310, 336, 400, 649} \X {150, 151, 225, 300}

InitialX == 100
InitialY == 100

\* the doubles 1.0 and 0.1, the levels of the opacity menu, and the arguments
\* set_opacity and adjust_opacity are called with
OpacityMax == FloatDiv(1, 1)
OpacityMin == FloatDiv(1, 10)
OpacityLevels == {FloatDiv(k, 10) : k \in 1..10}
OpacityValues ==
    {Signed(FALSE, x) : x \in OpacityLevels}
        \cup {Signed(FALSE, FloatZero), Signed(TRUE, FloatDiv(1, 2)),
              Signed(FALSE, FloatDiv(3, 2)), Signed(FALSE, FloatDiv(1, 20))}
OpacitySteps == {Signed(FALSE, OpacityMin), Signed(TRUE, OpacityMin)}


NoDict == [used |-> FALSE, bbox |-> <<0, 0, 0, 0>>, hwnd |-> 0]

NoPip == [
    alive |-> FALSE, source_type |-> "none", source_data |-> 0,
    rect |-> <<0, 0, 0, 0>>, running |-> FALSE, window |-> "none",
    is_resizing |-> FALSE, resize_start_x |-> 0, resize_start_y |-> 0,
    resize_corner |-> NoCorner, last_x |-> 0, last_y |-> 0,
    source_aspect_ratio |-> NoRatio, maintain_aspect_ratio |-> FALSE,
    auto_resize_on_source_change |-> FALSE, last_source_size |-> NoSize,
    opacity |-> FloatZero, geometry |-> Geom(0, 0, 0, 0), canvas_image |-> FALSE,
    ratio_writer |-> "none", pressed |-> FALSE]

\* a capture thread before its first step
NoThread == [pc |-> "none", img |-> NoImg, touched |-> {}, calls |-> <<>>]

Idle == [op |-> "idle", todo |-> <<>>, step |-> 0]

\* None as the selector's result, and a selected rectangle
NoResult == [set |-> FALSE, x |-> 0, y |-> 0, width |-> 0, height |-> 0]
Result(x, y, width, height) ==
    [set |-> TRUE, x |-> x, y |-> y, width |-> width, height |-> height]

\* ScreenAreaSelector.__init__ before show_selector: no overlay (root is
\* None), no selection, no result; called lists the results the callback
\* has been invoked with
NoSelector == [
    root |-> FALSE, callback |-> FALSE, selection_active |-> FALSE,
    start_x |-> 0, start_y |-> 0, current_x |-> 0, current_y |-> 0,
    screen_offset_x |-> 0, screen_offset_y |-> 0,
    result |-> NoResult, error |-> FALSE, called |-> <<>>]

\* InfinitePIPWindow.__init__: setup_window, calculate_aspect_ratio and
\* start_capture_thread, for a source of declared size w x h
NewPip(type, ref, rect) ==
    TheOne({
        [alive |-> TRUE, source_type |-> type, source_data |-> ref,
         rect |-> rect, running |-> TRUE, window |-> "alive",
         is_resizing |-> FALSE, resize_start_x |-> 0, resize_start_y |-> 0,
         resize_corner |-> NoCorner, last_x |-> 0, last_y |-> 0,
         source_aspect_ratio |-> r, maintain_aspect_ratio |-> TRUE,
         auto_resize_on_source_change |-> TRUE, last_source_size |-> NoSize,
         opacity |-> OpacityMax,
         geometry |-> TheOne({Geom(sz[1], sz[2], InitialX, InitialY) :
                                sz \in {InitialSize(r)}}),
         canvas_image |-> FALSE, ratio_writer |-> "ui", pressed |-> FALSE] :
        r \in {DeclaredRatio(rect[3], rect[4])}})

\* the bbox refresh_windows records for the window: its full rectangle
WindowRect == <<os_win.left, 0, Shapes[os_win.shape].rect[1],
                Shapes[os_win.shape].rect[2]>>

\* the dimensions capture_window_direct captures: the client area when both
\* its sides exceed 100, else the full rectangle
CaptureDims(sh) ==
    IF sh.client[1] > ClientFloor /\ sh.client[2] > ClientFloor
    THEN sh.client ELSE sh.rect

FreshDicts == {d \in 1..MaxDicts : ~heap[d].used}
FreshSessions == {s \in Sessions : ~pip[s].alive /\ s <= limits.sessions}
NextDict == CHOOSE d \in FreshDicts : \A e \in FreshDicts : d <= e
NextSession == CHOOSE s \in FreshSessions : \A t \in FreshSessions : s <= t

\* the declared rectangle of a session's source
SourceBbox(s) ==
    IF pip[s].source_type = "window" THEN heap[pip[s].source_data].bbox
    ELSE pip[s].rect

\* the photo of which only the post is kept
NoPhoto == [scaled |-> <<0, 0>>, box |-> <<0, 0, 0, 0>>, size |-> <<0, 0>>]
Post(q, cb, s, d) == Append(q, [cb |-> cb, sess |-> s, data |-> d])

\* update_status: the displayed number of active PIPs
update_status(list) == Len(list)

InList(list, s) == \E i \in 1..Len(list) : list[i] = s
\* list.remove(s): the list without the first occurrence of s
Remove(list, s) ==
    IF ~InList(list, s) THEN list
    ELSE LET i == CHOOSE k \in 1..Len(list) :
                      list[k] = s /\ \A j \in 1..(k - 1) : list[j] # s
         IN  SubSeq(list, 1, i - 1) \o SubSeq(list, i + 1, Len(list))

TypeOK ==
    /\ \A s \in Sessions : pip[s].window \in {"none", "alive", "destroyed"}
    /\ \A s \in Sessions :
           thr[s].pc \in {"none", "top", "capture", "render", "sleep33",
                          "sleep100", "done"}
    /\ Len(ui_queue) <= MaxQueue
    /\ displayed_count \in 0..MaxSessions

\* the state after InfinitePIPModernUI.__init__, which ends with
\* refresh_windows: one visible application window is listed
InitWith(lim) ==
    /\ capture_available \in BOOLEAN
    /\ \E sh \in lim.shapes :
           os_win = [exists |-> TRUE, iconic |-> FALSE, shape |-> sh,
                     left |-> 0]
    /\ pip = [s \in Sessions |-> NoPip]
    /\ thr = [s \in Sessions |-> NoThread]
    /\ ui_queue = <<>>
    /\ ui = Idle
    /\ active_pips = <<>>
    /\ windows = <<1>>
    /\ heap = [d \in 1..MaxDicts |->
                 IF d = 1
                 THEN [used |-> TRUE, bbox |-> WindowRect,
                       hwnd |-> IF capture_available THEN 1 ELSE 0]
                 ELSE NoDict]
    /\ displayed_count = 0
    /\ root_alive = TRUE
    /\ events = 0
    /\ limits = lim
    /\ replies = <<>>
    /\ selector = NoSelector

(* --------------------------- capture thread --------------------------- *)
\* a while test that does not look at running
LoopTop_deaf(s) ==
    /\ thr[s].pc \in {"top", "sleep33", "sleep100"}
    /\ thr' = [thr EXCEPT ![s] =
                 [pc |-> "capture", img |-> NoImg, touched |-> {},
                  calls |-> <<>>]]
    /\ UNCHANGED <<pip, ui_queue, ui, active_pips, windows, heap,
                   displayed_count, root_alive, os_win, capture_available,
                   events, limits, replies, selector>>

\* capture_loop: the while test, at thread start and after either pause
LoopTop(s) ==
    /\ thr[s].pc \in {"top", "sleep33", "sleep100"}
    /\ thr' = [thr EXCEPT ![s] =
                 [pc |-> IF pip[s].running THEN "capture" ELSE "done",
                  img |-> NoImg, touched |-> {}, calls |-> <<>>]]
    /\ UNCHANGED <<pip, ui_queue, ui, active_pips, windows, heap,
                   displayed_count, root_alive, os_win, capture_available,
                   events, limits, replies, selector>>

\* capture_window_direct trying the capture APIs before the IsIconic test
DirectCalls_eager(dims, print_ok) ==
    <<"IsWindow", "GetWindowRect">>
        \o (IF dims[1] <= 0 \/ dims[2] <= 0 THEN <<>>
            ELSE <<"PrintWindow">>
                   \o (IF print_ok THEN <<>> ELSE <<"BitBlt">>)
                   \o <<"IsIconic">>)

\* the platform calls capture_window_direct makes, in order, for a window
\* that exists: the capture APIs come after the size and IsIconic tests, and
\* BitBlt after a PrintWindow that produced no image
DirectCalls(dims, print_ok) ==
    <<"IsWindow", "GetWindowRect">>
        \o (IF dims[1] <= 0 \/ dims[2] <= 0 THEN <<>>
            ELSE <<"IsIconic">>
                   \o (IF os_win.iconic THEN <<>>
                       ELSE <<"PrintWindow">>
                              \o (IF print_ok THEN <<>> ELSE <<"BitBlt">>)))

\* a capture_window_direct that has no frame for a minimized window
capture_window_direct_blank(d, print_ok, bitblt_ok) ==
    IF ~os_win.exists
    THEN [img |-> NoImg, bbox |-> heap[d].bbox, calls |-> <<"IsWindow">>]
    ELSE LET dims == CaptureDims(Shapes[os_win.shape])
         IN  [img  |-> IF dims[1] <= 0 \/ dims[2] <= 0 THEN Placeholder
                       ELSE IF os_win.iconic THEN NoImg
                       ELSE IF print_ok \/ bitblt_ok THEN dims ELSE NoImg,
              bbox |-> <<os_win.left, 0, dims[1], dims[2]>>,
              calls |-> DirectCalls(dims, print_ok)]

\* capture_window_direct(hwnd): print_ok and bitblt_ok tell whether
\* PrintWindow and, after it, BitBlt produce an image
capture_window_direct(d, print_ok, bitblt_ok) ==
    IF ~os_win.exists
    THEN [img |-> NoImg, bbox |-> heap[d].bbox, calls |-> <<"IsWindow">>]
    ELSE LET dims == CaptureDims(Shapes[os_win.shape])
         IN  [img  |-> IF dims[1] <= 0 \/ dims[2] <= 0 THEN Placeholder
                       ELSE IF os_win.iconic THEN Placeholder
                       ELSE IF print_ok \/ bitblt_ok THEN dims ELSE NoImg,
              bbox |-> <<os_win.left, 0, dims[1], dims[2]>>,
              calls |-> DirectCalls(dims, print_ok)]

\* update_window_position: lookup_ok tells whether the title lookup ran
\* without raising
update_window_position(s, d, lookup_ok) ==
    LET old == heap[d].bbox
        new == IF lookup_ok /\ os_win.exists THEN WindowRect ELSE old
        old_aspect == IF old[4] > 0 THEN Ratio(old[3], old[4]) ELSE NoRatio
        new_aspect == IF new[4] > 0 THEN Ratio(new[3], new[4]) ELSE NoRatio
        resized == <<old[3], old[4]>> # <<new[3], new[4]>>
        changed == resized /\ old_aspect # new_aspect
    IN  [bbox  |-> new,
         ratio |-> IF changed THEN new_aspect ELSE pip[s].source_aspect_ratio,
         wrote |-> changed,
         asked |-> changed /\ pip[s].maintain_aspect_ratio
                           /\ pip[s].auto_resize_on_source_change,
         post  |-> changed /\ pip[s].maintain_aspect_ratio
                           /\ pip[s].auto_resize_on_source_change
                           /\ pip[s].window = "alive"]

\* capture_loop whose handler lets a failed capture end the thread
Capture_fatal(s, lookup_ok, ok, bitblt_ok) ==
    /\ thr[s].pc = "capture"
    /\ thr' = [thr EXCEPT ![s].pc = IF ok THEN "sleep33" ELSE "done"]
    /\ UNCHANGED <<pip, ui_queue, ui, active_pips, windows, heap,
                   displayed_count, root_alive, os_win, capture_available,
                   events, limits, replies, selector>>

\* capture_source: the frame (or NoImg for None), the platform calls made
\* and the side effects of the strategy taken; lookup_ok, ok and bitblt_ok
\* are the platform's outcomes (ok is PrintWindow's on the direct path, the
\* screen grab's on the others)
capture_source(s, lookup_ok, ok, bitblt_ok) ==
    LET p == pip[s]
        d == p.source_data
        keep == [ratio |-> p.source_aspect_ratio, wrote |-> FALSE,
                 asked |-> FALSE, post |-> FALSE]
    IN  IF p.source_type = "window"
        THEN IF capture_available /\ heap[d].hwnd # 0
             THEN LET c == capture_window_direct(d, ok, bitblt_ok)
                  IN  [img |-> c.img, bbox |-> c.bbox, via |-> "direct",
                       calls |-> c.calls] @@ keep
             ELSE LET u == update_window_position(s, d, lookup_ok)
                  IN  [img |-> IF ok /\ u.bbox[3] > 0 /\ u.bbox[4] > 0
                               THEN <<u.bbox[3], u.bbox[4]>> ELSE NoImg,
                       bbox |-> u.bbox, via |-> "dynamic", ratio |-> u.ratio,
                       wrote |-> u.wrote, asked |-> u.asked, post |-> u.post,
                       calls |-> <<"getWindowsWithTitle", "screenshot">>]
        ELSE [img |-> IF ok /\ p.rect[3] > 0 /\ p.rect[4] > 0
                      THEN <<p.rect[3], p.rect[4]>> ELSE NoImg,
              bbox |-> p.rect, via |-> "region", calls |-> <<>>] @@ keep

\* handle_source_size_change(new_size) with the ratio r tracked so far
handle_source_size_change(p, r, new_size) ==
    LET new_ratio == Ratio(new_size[1], new_size[2])
        update == /\ p.maintain_aspect_ratio
                  /\ new_size[2] > 0
                  /\ (r = NoRatio \/ RatioDiffers(new_ratio, r))
    IN  [ratio |-> IF update THEN new_ratio ELSE r,
         wrote |-> update,
         post  |-> update /\ p.auto_resize_on_source_change]

\* one capture_loop iteration up to the size-change handling: capture_source,
\* the test of img and of the overlay, handle_source_size_change
Capture(s, lookup_ok, ok, bitblt_ok) ==
    /\ thr[s].pc = "capture"
    /\ LET p == pip[s]
           c == capture_source(s, lookup_ok, ok, bitblt_ok)
           shown == c.img # NoImg /\ p.window = "alive"
           differs == shown /\ p.last_source_size # c.img
           h == IF differs
                THEN handle_source_size_change(p, c.ratio, c.img)
                ELSE [ratio |-> c.ratio, wrote |-> FALSE, post |-> FALSE]
           q1 == IF c.post
                 THEN Post(ui_queue, "update_pip_window_size", s, 0)
                 ELSE ui_queue
           q2 == IF h.post
                 THEN Post(q1, "update_pip_window_size", s, 0)
                 ELSE q1
       IN  /\ Len(q2) <= limits.queue
           /\ ui_queue' = q2
           /\ heap' = IF p.source_type = "window"
                      THEN [heap EXCEPT ![p.source_data].bbox = c.bbox]
                      ELSE heap
           /\ pip' = [pip EXCEPT
                        ![s].source_aspect_ratio = h.ratio,
                        ![s].ratio_writer =
                            IF c.wrote \/ h.wrote THEN "capture" ELSE @,
                        ![s].last_source_size =
                            IF differs THEN c.img ELSE @]
           /\ thr' = [thr EXCEPT ![s] =
                        [pc |-> IF c.img # NoImg /\ ~root_alive THEN "sleep100"
                                ELSE IF shown THEN "render" ELSE "sleep33",
                         img |-> c.img,
                         touched |-> IF c.img # NoImg \/ c.asked
                                     THEN {"window"} ELSE {},
                         calls |-> c.calls]]
    /\ UNCHANGED <<ui, active_pips, windows, displayed_count, root_alive,
                   os_win, capture_available, events, limits, replies, selector>>

\* the rest of the iteration: the canvas size is read, the frame is fitted
\* and update_canvas is posted; a destroyed canvas, or a fault of the
\* imaging or Tk calls, raises into the handler of capture_loop
RenderPhoto(s, fault, photo) ==
    /\ thr[s].pc = "render"
    /\ LET g == pip[s].geometry
           gone == fault \/ pip[s].window # "alive"
           draw == ~gone /\ g.w > 1 /\ g.h > 1
       IN  /\ draw => Len(ui_queue) < limits.queue
           /\ ui_queue' = IF draw
                          THEN Post(ui_queue, "update_canvas", s, photo)
                          ELSE ui_queue
           /\ thr' = [thr EXCEPT
                        ![s].pc = IF gone THEN "sleep100" ELSE "sleep33",
                        ![s].touched = @ \cup {"canvas"}]
    /\ UNCHANGED <<pip, ui, active_pips, windows, heap, displayed_count,
                   root_alive, os_win, capture_available, events, limits, replies, selector>>

\* the rest of the iteration, the photo kept only as the fact of its post
Render(s, fault) == RenderPhoto(s, fault, NoPhoto)

\* the rest of the iteration with the photo it posts: the frame fitted to
\* the canvas by resize_image_maintain_aspect
RenderFit(s) ==
    RenderPhoto(s, FALSE,
                resize_image_maintain_aspect(thr[s].img, pip[s].geometry.w,
                                             pip[s].geometry.h))

(* ----------------------------- UI thread ------------------------------ *)
UiReady == ui = Idle /\ root_alive

\* sessions that a queued remote creation will still construct
Reserved == Len(SelectSeq(ui_queue, LAMBDA e : e.cb = "create_pip"))
CanCreate == Cardinality(FreshSessions) > Reserved

\* a create_* handler that does not append the session to active_pips
Construct_unlisted(type, ref, rect) ==
    LET s == NextSession
    IN  /\ pip' = [pip EXCEPT ![s] = NewPip(type, ref, rect)]
        /\ thr' = [thr EXCEPT ![s] = [NoThread EXCEPT !.pc = "top"]]
        /\ active_pips' = active_pips
        /\ displayed_count' = update_status(active_pips)

\* the constructor run by a create_* handler, then the append to
\* active_pips, update_status and update_active_pips_list
Construct(type, ref, rect) ==
    LET s == NextSession
    IN  /\ pip' = [pip EXCEPT ![s] = NewPip(type, ref, rect)]
        /\ thr' = [thr EXCEPT ![s] = [NoThread EXCEPT !.pc = "top"]]
        /\ active_pips' = Append(active_pips, s)
        /\ displayed_count' = update_status(Append(active_pips, s))

\* update_canvas(photo), run from the queue
update_canvas(s) ==
    /\ pip' = IF pip[s].window = "alive"
              THEN [pip EXCEPT ![s].canvas_image = TRUE] ELSE pip
    /\ UNCHANGED <<thr, active_pips, windows, heap, displayed_count>>

\* update_pip_window_size(), run from the queue; the callback of a
\* destroyed overlay no longer exists
update_pip_window_size(s) ==
    /\ pip' = IF pip[s].window = "alive" /\ Truthy(pip[s].source_aspect_ratio)
              THEN [pip EXCEPT ![s].geometry =
                       MatchedGeometry(@, pip[s].source_aspect_ratio)]
              ELSE pip
    /\ UNCHANGED <<thr, active_pips, windows, heap, displayed_count>>

\* update_pip_window_size() up to its test of source_aspect_ratio
\* (lines 464-467), run from the queue
update_pip_window_size_test ==
    /\ UiReady
    /\ ui_queue # <<>>
    /\ Head(ui_queue).cb = "update_pip_window_size"
    /\ LET s == Head(ui_queue).sess
       IN  ui' = IF pip[s].window = "alive"
                    /\ Truthy(pip[s].source_aspect_ratio)
                 THEN [op |-> "update_pip_window_size", todo |-> <<s>>,
                       step |-> 0]
                 ELSE ui
    /\ ui_queue' = Tail(ui_queue)
    /\ UNCHANGED <<pip, thr, active_pips, windows, heap, displayed_count,
                   root_alive, os_win, capture_available, events, limits,
                   replies, selector>>

\* the rest of update_pip_window_size: source_aspect_ratio is read again
\* for each division (lines 474-481); a ratio that is None or zero by now
\* raises into the handler's except clause
update_pip_window_size_math ==
    /\ ui.op = "update_pip_window_size"
    /\ LET s == ui.todo[1]
       IN  pip' = IF Truthy(pip[s].source_aspect_ratio)
                  THEN [pip EXCEPT ![s].geometry =
                           MatchedGeometry(@, pip[s].source_aspect_ratio)]
                  ELSE pip
    /\ ui' = Idle
    /\ UNCHANGED <<thr, ui_queue, active_pips, windows, heap,
                   displayed_count, root_alive, os_win, capture_available,
                   events, limits, replies, selector>>

\* create_pip(), the closure create_window_pip_from_external posts
create_pip(d) ==
    /\ windows' = IF \E i \in 1..Len(windows) :
                        heap[windows[i]].hwnd = heap[d].hwnd
                  THEN windows ELSE Append(windows, d)
    /\ Construct("window", d, heap[d].bbox)
    /\ UNCHANGED heap

\* the Tk event loop runs the oldest posted callback
RunPosted ==
    /\ UiReady
    /\ ui_queue # <<>>
    /\ LET e == Head(ui_queue)
       IN  CASE e.cb = "update_canvas" -> update_canvas(e.sess)
             [] e.cb = "update_pip_window_size" -> update_pip_window_size(e.sess)
             [] e.cb = "create_pip" -> create_pip(e.data)
    /\ ui_queue' = Tail(ui_queue)
    /\ UNCHANGED <<ui, root_alive, os_win, capture_available, events, limits, replies, selector>>

create_monitor_pip ==
    /\ UiReady /\ CanCreate
    /\ Construct("monitor", 0, MonitorRect)
    /\ UNCHANGED <<ui_queue, ui, windows, heap, root_alive, os_win,
                   capture_available, events, limits, replies, selector>>

create_window_pip(window_index) ==
    /\ UiReady /\ CanCreate
    /\ window_index \in 1..Len(windows)
    /\ Construct("window", windows[window_index],
                 heap[windows[window_index]].bbox)
    /\ UNCHANGED <<ui_queue, ui, windows, heap, root_alive, os_win,
                   capture_available, events, limits, replies, selector>>

\* int(text) for a text over digits, signs, blanks and other characters:
\* blanks around the number are ignored, one sign may precede the digits,
\* anything else raises ValueError
IsDigit(c) == c \in {"0", "1", "2", "3", "4", "5", "6", "7", "8", "9"}
DigitValue(c) ==
    CASE c = "0" -> 0 [] c = "1" -> 1 [] c = "2" -> 2 [] c = "3" -> 3
      [] c = "4" -> 4 [] c = "5" -> 5 [] c = "6" -> 6 [] c = "7" -> 7
      [] c = "8" -> 8 [] c = "9" -> 9

RECURSIVE DigitsValue(_)
DigitsValue(t) ==
    IF t = <<>> THEN 0
    ELSE 10 * DigitsValue(SubSeq(t, 1, Len(t) - 1)) + DigitValue(t[Len(t)])

RECURSIVE Stripped(_)
Stripped(t) ==
    IF t = <<>> THEN t
    ELSE IF Head(t) = " " THEN Stripped(Tail(t))
    ELSE IF t[Len(t)] = " " THEN Stripped(SubSeq(t, 1, Len(t) - 1))
    ELSE t

ValueError == [ok |-> FALSE, value |-> 0]

ParseInt(text) ==
    LET t      == Stripped(text)
        signed == t # <<>> /\ Head(t) \in {"-", "+"}
        body   == IF signed THEN Tail(t) ELSE t
    IN  IF body # <<>> /\ \A i \in 1..Len(body) : IsDigit(body[i])
        THEN [ok |-> TRUE,
              value |-> IF signed /\ Head(t) = "-"
                        THEN 0 - DigitsValue(body) ELSE DigitsValue(body)]
        ELSE ValueError

\* messagebox.showerror(...): the modal dialog the handler opens
showerror(message) == [op |-> message, todo |-> <<>>, step |-> 0]
NotNumbers == "showerror: Please enter valid numbers for all fields"
NotPositive == "showerror: Width and height must be positive"
ErrorDialogs == {NotNumbers, NotPositive}

\* a create_region_pip that tests the width only
NonPositive_width(width, height) == width <= 0

\* the test of line 1670
NonPositive(width, height) == width <= 0 \/ height <= 0

\* create_region_pip with the four entries holding the given texts
create_region_pip_entered(region_x, region_y, region_width, region_height) ==
    LET x      == ParseInt(region_x)
        y      == ParseInt(region_y)
        width  == ParseInt(region_width)
        height == ParseInt(region_height)
    IN  /\ UiReady
        /\ IF ~(x.ok /\ y.ok /\ width.ok /\ height.ok)
           THEN /\ ui' = showerror(NotNumbers)
                /\ UNCHANGED <<pip, thr, active_pips, displayed_count>>
           ELSE IF NonPositive(width.value, height.value)
           THEN /\ ui' = showerror(NotPositive)
                /\ UNCHANGED <<pip, thr, active_pips, displayed_count>>
           ELSE /\ CanCreate
                /\ Construct("region", 0, <<x.value, y.value, width.value,
                                            height.value>>)
                /\ UNCHANGED ui
        /\ UNCHANGED <<ui_queue, windows, heap, root_alive, os_win,
                       capture_available, events, limits, replies, selector>>

\* the user closes the error dialog
dismiss_error ==
    /\ ui.op \in ErrorDialogs
    /\ ui' = Idle
    /\ UNCHANGED <<pip, thr, ui_queue, active_pips, windows, heap,
                   displayed_count, root_alive, os_win, capture_available,
                   events, limits, replies, selector>>

\* create_region_pip with the entries holding the default region
RegionEntries == << <<"0">>, <<"0">>, <<"8", "0", "0">>, <<"6", "0", "0">> >>
create_region_pip ==
    create_region_pip_entered(RegionEntries[1], RegionEntries[2],
                              RegionEntries[3], RegionEntries[4])

\* the context menu entries; the menu reads the ratio to build itself
toggle_aspect_ratio(s) ==
    /\ UiReady /\ events < limits.events
    /\ pip[s].window = "alive"
    /\ Truthy(pip[s].source_aspect_ratio)
    /\ pip' = [pip EXCEPT ![s].maintain_aspect_ratio = ~@]
    /\ events' = events + 1
    /\ UNCHANGED <<thr, ui_queue, ui, active_pips, windows, heap,
                   displayed_count, root_alive, os_win, capture_available,
                   limits, replies, selector>>

toggle_auto_resize(s) ==
    /\ UiReady /\ events < limits.events
    /\ pip[s].window = "alive"
    /\ pip[s].source_type = "window"
    /\ pip' = [pip EXCEPT ![s].auto_resize_on_source_change = ~@]
    /\ events' = events + 1
    /\ UNCHANGED <<thr, ui_queue, ui, active_pips, windows, heap,
                   displayed_count, root_alive, os_win, capture_available,
                   limits, replies, selector>>

(* ------------------------- interactive geometry ----------------------- *)
\* the points of the overlay a press may land on: corners, edge middles and
\* the middle
ClickPoints(g) ==
    {0, g.w \div 2, g.w - 1} \X {0, g.h \div 2, g.h - 1}

\* the points around the limits of the corner and edge zones
HitPoints(g) ==
    {0, EdgeSize, EdgeSize + 1, CornerSize, CornerSize + 1, g.w \div 2,
     g.w - CornerSize - 1, g.w - CornerSize, g.w - EdgeSize - 1,
     g.w - EdgeSize, g.w - 1}
        \X {0, EdgeSize, EdgeSize + 1, CornerSize, CornerSize + 1, g.h \div 2,
            g.h - CornerSize - 1, g.h - CornerSize, g.h - EdgeSize - 1,
            g.h - EdgeSize, g.h - 1}

OnScreen(x, y) == x \in 0..ScreenW /\ y \in 0..ScreenH

UiOnly == <<thr, ui_queue, ui, active_pips, windows, heap, displayed_count,
            root_alive, os_win, capture_available, events, limits, replies, selector>>

\* on_click(event): event.x, event.y are relative to the overlay,
\* event.x_root, event.y_root to the screen
on_click(s, x, y) ==
    /\ UiReady
    /\ pip[s].window = "alive"
    /\ ~pip[s].pressed
    /\ LET g == pip[s].geometry
           corner == get_resize_corner(x, y, g.w, g.h)
       IN  /\ OnScreen(g.x + x, g.y + y)
           /\ pip' = [pip EXCEPT ![s] =
                 IF corner # NoCorner
                 THEN [@ EXCEPT !.resize_corner = corner,
                                !.is_resizing = TRUE,
                                !.resize_start_x = g.x + x,
                                !.resize_start_y = g.y + y,
                                !.pressed = TRUE]
                 ELSE [@ EXCEPT !.resize_corner = corner,
                                !.last_x = g.x + x,
                                !.last_y = g.y + y,
                                !.pressed = TRUE]]
    /\ UNCHANGED UiOnly

\* a handle_move that stretches the overlay as it moves it
handle_move_stretching(p, x_root, y_root) ==
    [p EXCEPT !.geometry.x = @ + (x_root - p.last_x),
              !.geometry.y = @ + (y_root - p.last_y),
              !.geometry.w = @ + Abs(x_root - p.last_x),
              !.last_x = x_root,
              !.last_y = y_root]

\* handle_move(event)
handle_move(p, x_root, y_root) ==
    [p EXCEPT !.geometry.x = @ + (x_root - p.last_x),
              !.geometry.y = @ + (y_root - p.last_y),
              !.last_x = x_root,
              !.last_y = y_root]

\* handle_resize(event)
handle_resize(p, x_root, y_root) ==
    [p EXCEPT !.geometry = ResizedGeometry(p.resize_corner, @,
                               x_root - p.resize_start_x,
                               y_root - p.resize_start_y,
                               p.source_aspect_ratio,
                               p.maintain_aspect_ratio),
              !.resize_start_x = x_root,
              !.resize_start_y = y_root]

\* on_drag(event), the pointer having moved by (dx, dy) with the button down
on_drag(s, dx, dy) ==
    /\ UiReady
    /\ pip[s].window = "alive"
    /\ pip[s].pressed
    /\ events < limits.events
    /\ LET p == pip[s]
           resizing == p.is_resizing /\ p.resize_corner # NoCorner
           x_root == (IF resizing THEN p.resize_start_x ELSE p.last_x) + dx
           y_root == (IF resizing THEN p.resize_start_y ELSE p.last_y) + dy
       IN  /\ OnScreen(x_root, y_root)
           /\ pip' = [pip EXCEPT ![s] =
                        IF resizing THEN handle_resize(p, x_root, y_root)
                        ELSE handle_move(p, x_root, y_root)]
    /\ events' = events + 1
    /\ UNCHANGED <<thr, ui_queue, ui, active_pips, windows, heap,
                   displayed_count, root_alive, os_win, capture_available,
                   limits, replies, selector>>

\* the UI thread inside a handler of session s that has found the ratio
\* known and has yet to read it again; the pointer of the event is kept
InHandler(op, s, x_root, y_root) ==
    [op |-> op, todo |-> <<s, x_root, y_root>>, step |-> 0]

\* handle_resize(event) up to its test of source_aspect_ratio (line 221);
\* without the constraint the handler ends here
handle_resize_test(s, dx, dy) ==
    /\ UiReady
    /\ pip[s].window = "alive"
    /\ pip[s].pressed
    /\ pip[s].is_resizing /\ pip[s].resize_corner # NoCorner
    /\ events < limits.events
    /\ LET p == pip[s]
           x_root == p.resize_start_x + dx
           y_root == p.resize_start_y + dy
           known == Truthy(p.source_aspect_ratio) /\ p.maintain_aspect_ratio
       IN  /\ OnScreen(x_root, y_root)
           /\ ui' = IF known THEN InHandler("handle_resize", s, x_root, y_root)
                     ELSE ui
           /\ pip' = IF known THEN pip
                      ELSE [pip EXCEPT ![s] = handle_resize(p, x_root, y_root)]
    /\ events' = events + 1
    /\ UNCHANGED <<thr, ui_queue, active_pips, windows, heap,
                   displayed_count, root_alive, os_win, capture_available,
                   limits, replies, selector>>

\* the rest of handle_resize: constrain_aspect_ratio reads
\* source_aspect_ratio again (line 234) and divides by it; a ratio that is
\* None or zero by now raises and the geometry is left as it was
handle_resize_constrain ==
    /\ ui.op = "handle_resize"
    /\ LET s == ui.todo[1]
           p == pip[s]
       IN  pip' = IF Truthy(p.source_aspect_ratio)
                  THEN [pip EXCEPT ![s] =
                           handle_resize(p, ui.todo[2], ui.todo[3])]
                  ELSE pip
    /\ ui' = Idle
    /\ UNCHANGED <<thr, ui_queue, active_pips, windows, heap,
                   displayed_count, root_alive, os_win, capture_available,
                   events, limits, replies, selector>>

\* on_release(event)
on_release(s) ==
    /\ UiReady
    /\ pip[s].window = "alive"
    /\ pip[s].pressed
    /\ pip' = [pip EXCEPT ![s].is_resizing = FALSE,
                          ![s].resize_corner = NoCorner,
                          ![s].pressed = FALSE]
    /\ UNCHANGED UiOnly

(* ------------------------------- opacity ------------------------------ *)
\* max(0.1, min(1.0, opacity_value)) without the lower bound
Clamped_unbounded(opacity_value) ==
    IF opacity_value.neg \/ FloatAbove(OpacityMax, opacity_value.v)
    THEN opacity_value.v
    ELSE OpacityMax

\* max(0.1, min(1.0, opacity_value)): min returns its second argument only
\* when it is below the first, max only when it is above
Clamped(opacity_value) ==
    TheOne({IF (~t.neg) /\ FloatAbove(t.v, OpacityMin) THEN t.v
            ELSE OpacityMin :
              t \in {IF opacity_value.neg
                        \/ FloatAbove(OpacityMax, opacity_value.v)
                     THEN opacity_value
                     ELSE Signed(FALSE, OpacityMax)}})

\* set_opacity(opacity_value): a level of the menu, the 0 key, or a call
\* with any other number
set_opacity(s, opacity_value) ==
    /\ UiReady
    /\ pip[s].window = "alive"
    /\ pip' = [pip EXCEPT ![s].opacity = Clamped(opacity_value)]
    /\ UNCHANGED UiOnly

\* adjust_opacity(delta): the + and - keys
adjust_opacity(s, delta) ==
    /\ UiReady
    /\ pip[s].window = "alive"
    /\ pip' = [pip EXCEPT ![s].opacity = Clamped(FloatAdd(@, delta))]
    /\ UNCHANGED UiOnly

(* ------------------------------ closing ------------------------------- *)
\* a handler that closes the sessions of list one after the other; step 1,
\* 2, 3 are the three statements of InfinitePIPWindow.close for the head
\* of todo, step 4 is what the handler does after its last close
Closing(op, list) ==
    [op |-> op, todo |-> list, step |-> IF list = <<>> THEN 4 ELSE 1]

\* "Close PIP" in the overlay's menu, or WM_DELETE_WINDOW
pip_close(s) ==
    /\ UiReady
    /\ pip[s].window = "alive"
    /\ ui' = Closing("close", <<s>>)
    /\ UNCHANGED <<pip, thr, ui_queue, active_pips, windows, heap,
                   displayed_count, root_alive, os_win, capture_available,
                   events, limits, replies, selector>>

close_pip(s) ==
    /\ UiReady
    /\ InList(active_pips, s)
    /\ ui' = Closing("close_pip", <<s>>)
    /\ UNCHANGED <<pip, thr, ui_queue, active_pips, windows, heap,
                   displayed_count, root_alive, os_win, capture_available,
                   events, limits, replies, selector>>

close_all_pips ==
    /\ UiReady
    /\ active_pips # <<>>
    /\ ui' = Closing("close_all_pips", active_pips)
    /\ UNCHANGED <<pip, thr, ui_queue, active_pips, windows, heap,
                   displayed_count, root_alive, os_win, capture_available,
                   events, limits, replies, selector>>

quit_application ==
    /\ UiReady
    /\ ui' = Closing("quit_application", active_pips)
    /\ UNCHANGED <<pip, thr, ui_queue, active_pips, windows, heap,
                   displayed_count, root_alive, os_win, capture_available,
                   events, limits, replies, selector>>

\* close: self.running = False
CloseStop ==
    /\ ui.step = 1
    /\ pip' = [pip EXCEPT ![Head(ui.todo)].running = FALSE]
    /\ ui' = [ui EXCEPT !.step = 2]
    /\ UNCHANGED <<thr, ui_queue, active_pips, windows, heap, displayed_count,
                   root_alive, os_win, capture_available, events, limits, replies, selector>>

\* close: self.window.destroy()
CloseDestroy ==
    /\ ui.step = 2
    /\ pip' = [pip EXCEPT ![Head(ui.todo)].window = "destroyed"]
    /\ ui' = [ui EXCEPT !.step = 3]
    /\ UNCHANGED <<thr, ui_queue, active_pips, windows, heap, displayed_count,
                   root_alive, os_win, capture_available, events, limits, replies, selector>>

\* a remove_pip that leaves the list as it is
remove_pip_keeps(list, s) == list

\* remove_pip(pip_window): the list and the count after the callback
remove_pip(list, s) == IF InList(list, s) THEN Remove(list, s) ELSE list

\* close: self.manager.remove_pip(self)
CloseNotify ==
    /\ ui.step = 3
    /\ LET s == Head(ui.todo)
       IN  /\ active_pips' = remove_pip(active_pips, s)
           /\ displayed_count' = IF InList(active_pips, s)
                                 THEN update_status(remove_pip(active_pips, s))
                                 ELSE displayed_count
    /\ ui' = [ui EXCEPT !.todo = Tail(@),
                        !.step = IF Tail(ui.todo) = <<>> THEN 4 ELSE 1]
    /\ UNCHANGED <<pip, thr, ui_queue, windows, heap, root_alive, os_win,
                   capture_available, events, limits, replies, selector>>

\* what the closing handler does after its last close
CloseFinish ==
    /\ ui.step = 4
    /\ CASE ui.op = "close" ->
              /\ ui' = Idle
              /\ UNCHANGED <<pip, active_pips, displayed_count, root_alive>>
         [] ui.op = "close_pip" ->
              /\ ui' = Idle
              /\ displayed_count' = update_status(active_pips)
              /\ UNCHANGED <<pip, active_pips, root_alive>>
         [] ui.op = "close_all_pips" ->
              /\ ui' = Idle
              /\ active_pips' = <<>>
              /\ displayed_count' = update_status(<<>>)
              /\ UNCHANGED <<pip, root_alive>>
         [] ui.op = "quit_application" ->
              /\ ui' = [op |-> "exited", todo |-> <<>>, step |-> 0]
              /\ root_alive' = FALSE
              /\ pip' = [s \in Sessions |->
                           IF pip[s].window = "alive"
                           THEN [pip[s] EXCEPT !.window = "destroyed"]
                           ELSE pip[s]]
              /\ UNCHANGED <<active_pips, displayed_count>>
    /\ UNCHANGED <<thr, ui_queue, windows, heap, os_win, capture_available,
                   events, limits, replies, selector>>

(* ----------------------- environment and remote ----------------------- *)
\* the captured application is resized, moved, minimized, restored, closed
OsEvent(new) ==
    /\ events < limits.events
    /\ os_win.exists
    /\ new # os_win
    /\ os_win' = new
    /\ events' = events + 1
    /\ UNCHANGED <<pip, thr, ui_queue, ui, active_pips, windows, heap,
                   displayed_count, root_alive, capture_available, limits, replies, selector>>

OsResize(shape) == OsEvent([os_win EXCEPT !.shape = shape])
OsMove(left) == OsEvent([os_win EXCEPT !.left = left])
OsMinimize == OsEvent([os_win EXCEPT !.iconic = ~@])
OsClose == OsEvent([os_win EXCEPT !.exists = FALSE])

\* RemoteControlHandler.create_window_pip: the parsed window_data is a new
\* dict; create_window_pip_from_external posts create_pip for it and the
\* handler answers
RemoteRequest(hwnd, bbox) ==
    /\ root_alive
    /\ CanCreate
    /\ FreshDicts # {}
    /\ Len(ui_queue) < limits.queue
    /\ heap' = [heap EXCEPT ![NextDict] =
                  [used |-> TRUE, bbox |-> bbox, hwnd |-> hwnd]]
    /\ ui_queue' = Post(ui_queue, "create_pip", 0, NextDict)
    /\ replies' = Append(replies,
                         [status |-> "success", window_data |-> NextDict,
                          message |-> "Window PIP created successfully"])
    /\ UNCHANGED <<pip, thr, ui, active_pips, windows, displayed_count,
                   root_alive, os_win, capture_available, events, limits,
                   selector>>

\* what a client sends: text that json.loads parses or not, and the action
\* and the window handle of the parsed command
RemoteData ==
    {[json |-> TRUE, action |-> "create_window_pip", hwnd |-> h] :
        h \in {0, 1}}
      \cup {[json |-> TRUE, action |-> a, hwnd |-> 0] :
              a \in {"close_all_pips", "None"}}
      \cup {[json |-> FALSE, action |-> "None", hwnd |-> 0]}

ErrorResponse(message) == [status |-> "error", message |-> message]

\* process_command treating every action as create_window_pip
process_command_lenient(command_data, app) ==
    IF ~app THEN ErrorResponse("App instance not available")
    ELSE [status |-> "success",
          message |-> "Window PIP created successfully"]

\* process_command(command_data) and the create_window_pip it dispatches
\* to; app tells whether the server has an app_instance
process_command(command_data, app) ==
    IF command_data.action = "create_window_pip"
    THEN IF ~app THEN ErrorResponse("App instance not available")
         ELSE [status |-> "success",
               message |-> "Window PIP created successfully"]
    ELSE ErrorResponse("Unknown action")

\* RemoteControlHandler.handle for the received data: json.loads raises on
\* text that is no JSON and the except clause answers with the error
handle(data, app) ==
    LET response == IF ~data.json THEN ErrorResponse("JSONDecodeError")
                    ELSE process_command(data, app)
    IN  IF response.status = "success"
        THEN RemoteRequest(data.hwnd, <<0, 0, 1280, 720>>)
        ELSE /\ Len(replies) < MaxReplies
             /\ replies' = Append(replies,
                                  response @@ [window_data |-> 0])
             /\ UNCHANGED <<pip, thr, ui_queue, ui, active_pips, windows,
                            heap, displayed_count, root_alive, os_win,
                            capture_available, events, limits, selector>>

(* ------------------------- region selector --------------------------- *)
\* the canvas coordinates the pointer visits, and the origins of the
\* combined screen (a second monitor may lie to the left of the first)
Coordinates == {0, 10, 11, 40}
ScreenOffsets == {<<0, 0>>, <<-1920, 0>>}

\* MinSelection: the 10 of the size test of confirm_selection
MinSelection == 10

SelectorOnly ==
    UNCHANGED <<pip, thr, ui_queue, ui, active_pips, windows, heap,
                displayed_count, root_alive, os_win, capture_available,
                events, limits, replies>>

start_selection(x, y) ==
    /\ selector.root
    /\ selector' = [selector EXCEPT !.selection_active = TRUE,
                                    !.start_x = x, !.start_y = y,
                                    !.current_x = x, !.current_y = y]
    /\ SelectorOnly

update_selection(x, y) ==
    /\ selector.root
    /\ selector' = IF selector.selection_active
                   THEN [selector EXCEPT !.current_x = x, !.current_y = y]
                   ELSE selector
    /\ SelectorOnly

end_selection(x, y) ==
    /\ selector.root
    /\ selector' = IF selector.selection_active
                   THEN [selector EXCEPT !.current_x = x, !.current_y = y,
                                         !.selection_active = FALSE]
                   ELSE selector
    /\ SelectorOnly

\* close_selector: the overlay is destroyed and the callback, if the
\* selector has one, is invoked with the result
close_selector(sel) ==
    [sel EXCEPT !.root = FALSE,
                !.called = IF sel.callback THEN Append(@, sel.result) ELSE @]

\* the size test of confirm_selection
ValidSelection(width, height) == width > MinSelection /\ height > MinSelection

confirm_selection ==
    /\ selector.root
    /\ LET x1 == Min(selector.start_x, selector.current_x)
           y1 == Min(selector.start_y, selector.current_y)
           x2 == Max(selector.start_x, selector.current_x)
           y2 == Max(selector.start_y, selector.current_y)
           width == x2 - x1
           height == y2 - y1
           moved == \/ selector.start_x # selector.current_x
                    \/ selector.start_y # selector.current_y
       IN  selector' =
               IF moved /\ ValidSelection(width, height)
               THEN close_selector(
                        [selector EXCEPT !.result =
                            Result(x1 + selector.screen_offset_x,
                                   y1 + selector.screen_offset_y,
                                   width, height)])
               ELSE [selector EXCEPT !.error = TRUE]
    /\ SelectorOnly

cancel_selection ==
    /\ selector.root
    /\ selector' = close_selector([selector EXCEPT !.result = NoResult])
    /\ SelectorOnly

\* the timer show_error starts removes the error panel after 3 seconds
remove_error ==
    /\ selector.root
    /\ selector.error
    /\ selector' = [selector EXCEPT !.error = FALSE]
    /\ SelectorOnly

(* --------------------------- specification ---------------------------- *)
\* BitBlt succeeding after a failed PrintWindow yields the frame PrintWindow
\* would have yielded: StrategySpec explores that outcome
CaptureThread(s) ==
    \/ LoopTop(s)
    \/ \E lookup_ok, ok \in BOOLEAN : Capture(s, lookup_ok, ok, FALSE)
    \/ \E fault \in BOOLEAN : Render(s, fault)

Create ==
    \/ create_monitor_pip
    \/ \E i \in 1..MaxDicts : create_window_pip(i)
    \/ create_region_pip

Toggle ==
    \/ \E s \in Sessions : toggle_aspect_ratio(s)
    \/ \E s \in Sessions : toggle_auto_resize(s)

Close ==
    \/ \E s \in Sessions : pip_close(s)
    \/ \E s \in Sessions : close_pip(s)
    \/ close_all_pips
    \/ quit_application
    \/ CloseStop
    \/ CloseDestroy
    \/ CloseNotify
    \/ CloseFinish

Environment ==
    \/ \E sh \in UsualShapes : OsResize(sh)
    \/ \E l \in Lefts : OsMove(l)
    \/ OsMinimize
    \/ OsClose

Remote ==
    \E data \in RemoteData : \E app \in BOOLEAN : handle(data, app)

\* one session of any kind, its capture thread, the UI thread and the
\* captured application
Next ==
    \/ \E s \in Sessions : CaptureThread(s)
    \/ RunPosted
    \/ Create
    \/ Toggle
    \/ Close
    \/ Environment

Init == InitWith([sessions |-> SoloSessions, events |-> MaxEvents,
                  queue |-> MaxQueue, shapes |-> InitialShapes])

Spec == Init /\ [][Next]_vars

\* two sessions on the listed window, closed in every way the manager and
\* the overlay offer
PairNext ==
    \/ \E s \in Sessions : LoopTop(s)
    \/ \E s \in Sessions : Capture(s, TRUE, TRUE, FALSE)
    \/ \E s \in Sessions : Render(s, FALSE)
    \/ RunPosted
    \/ \E i \in 1..MaxDicts : create_window_pip(i)
    \/ Close
    \/ \E sh \in UsualShapes : OsResize(sh)

PairInit == InitWith([sessions |-> MaxSessions, events |-> PairEvents,
                      queue |-> PairQueue, shapes |-> {1}])

PairSpec == PairInit /\ [][PairNext]_vars

\* one overlay on a region of a declared size, pressed, dragged and released
GeomNext ==
    \/ \E s \in Sessions : \E pt \in ClickPoints(pip[s].geometry) :
           on_click(s, pt[1], pt[2])
    \/ \E s \in Sessions : \E dx, dy \in DragDeltas : on_drag(s, dx, dy)
    \/ \E s \in Sessions : on_release(s)
    \/ \E s \in Sessions : toggle_aspect_ratio(s)

\* the state after create_region_pip has built the first session
GeomInitOn(sizes) ==
    /\ \E size \in sizes :
           pip = [s \in Sessions |->
                    IF s = 1
                    THEN NewPip("region", 0, <<0, 0, size[1], size[2]>>)
                    ELSE NoPip]
    /\ thr = [s \in Sessions |->
                IF s = 1 THEN [NoThread EXCEPT !.pc = "top"] ELSE NoThread]
    /\ ui_queue = <<>>
    /\ ui = Idle
    /\ active_pips = <<1>>
    /\ windows = <<>>
    /\ heap = [d \in 1..MaxDicts |-> NoDict]
    /\ displayed_count = 1
    /\ root_alive = TRUE
    /\ os_win = [exists |-> FALSE, iconic |-> FALSE, shape |-> 1, left |-> 0]
    /\ capture_available = FALSE
    /\ events = 0
    /\ limits = [sessions |-> SoloSessions, events |-> GeomEvents,
                 queue |-> MaxQueue, shapes |-> {1}]
    /\ replies = <<>>
    /\ selector = NoSelector

GeomInit == GeomInitOn(DeclaredSizes)

GeomSpec == GeomInit /\ [][GeomNext]_vars

\* requests arrive on the loopback socket while the UI thread runs what
\* was posted, closes overlays and quits
RemoteNext ==
    \/ Remote
    \/ RunPosted
    \/ \E s \in Sessions : pip_close(s)
    \/ quit_application
    \/ CloseStop
    \/ CloseDestroy
    \/ CloseNotify
    \/ CloseFinish

RemoteInit == InitWith([sessions |-> MaxSessions, events |-> MaxEvents,
                        queue |-> MaxQueue, shapes |-> InitialShapes])

RemoteSpec == RemoteInit /\ [][RemoteNext]_vars

\* the overlay of the visual region selection: the pointer is pressed,
\* moved and released, Return confirms and Escape cancels
SelectorNext ==
    \/ \E x, y \in Coordinates : start_selection(x, y)
    \/ \E x, y \in Coordinates : update_selection(x, y)
    \/ \E x, y \in Coordinates : end_selection(x, y)
    \/ confirm_selection
    \/ cancel_selection
    \/ remove_error

\* the state after select_area(callback): start_visual_region_selection
\* passes its callback to the constructor and none to select_area, which
\* stores the one it is given
SelectorInit ==
    /\ pip = [s \in Sessions |-> NoPip]
    /\ thr = [s \in Sessions |-> NoThread]
    /\ ui_queue = <<>>
    /\ ui = Idle
    /\ active_pips = <<>>
    /\ windows = <<>>
    /\ heap = [d \in 1..MaxDicts |-> NoDict]
    /\ displayed_count = 0
    /\ root_alive = TRUE
    /\ os_win = [exists |-> FALSE, iconic |-> FALSE, shape |-> 1, left |-> 0]
    /\ capture_available = FALSE
    /\ events = 0
    /\ limits = [sessions |-> SoloSessions, events |-> MaxEvents,
                 queue |-> MaxQueue, shapes |-> {1}]
    /\ replies = <<>>
    /\ \E callback \in BOOLEAN : \E offset \in ScreenOffsets :
           selector = [NoSelector EXCEPT !.root = TRUE,
                                         !.callback = callback,
                                         !.screen_offset_x = offset[1],
                                         !.screen_offset_y = offset[2]]

SelectorSpec == SelectorInit /\ [][SelectorNext]_vars

\* one session on the listed window, resized by its bottom right corner:
\* its capture thread runs between the steps of the UI thread's handlers
\* that test the ratio and then use it
RaceNext ==
    \/ \E s \in Sessions : CaptureThread(s)
    \/ (ui_queue # <<>> /\ Head(ui_queue).cb = "update_canvas" /\ RunPosted)
    \/ update_pip_window_size_test
    \/ update_pip_window_size_math
    \/ \E i \in 1..MaxDicts : create_window_pip(i)
    \/ \E s \in Sessions :
           on_click(s, pip[s].geometry.w - 1, pip[s].geometry.h - 1)
    \/ \E s \in Sessions : \E d \in DragDeltas : handle_resize_test(s, d, d)
    \/ handle_resize_constrain
    \/ \E s \in Sessions : on_release(s)
    \/ \E sh \in UsualShapes : OsResize(sh)

RaceInit == InitWith([sessions |-> SoloSessions, events |-> MaxEvents,
                      queue |-> MaxQueue, shapes |-> {1}])

RaceSpec == RaceInit /\ [][RaceNext]_vars

\* one session on the listed window, captured with every outcome of the
\* title lookup, of PrintWindow and of BitBlt while the window is resized,
\* moved, minimized and closed
StrategyNext ==
    \/ \E s \in Sessions : LoopTop(s)
    \/ \E s \in Sessions : \E lookup_ok, ok, bitblt_ok \in BOOLEAN :
           Capture(s, lookup_ok, ok, bitblt_ok)
    \/ \E s \in Sessions : Render(s, FALSE)
    \/ RunPosted
    \/ \E i \in 1..MaxDicts : create_window_pip(i)
    \/ Environment
    \/ OsResize(PortraitShape)

StrategyInit == InitWith([sessions |-> SoloSessions, events |-> MaxEvents,
                          queue |-> MaxQueue, shapes |-> InitialShapes])

StrategySpec == StrategyInit /\ [][StrategyNext]_vars

\* one overlay, of a region of one of four proportions, pressed at the
\* limits of its zones
HitSizes == {<<1920, 1080>>, <<800, 600>>, <<4000, 1000>>, <<1000, 1000>>}

HitNext ==
    \E s \in Sessions : \E pt \in HitPoints(pip[s].geometry) :
        on_click(s, pt[1], pt[2])

HitInit == GeomInitOn(HitSizes)

HitSpec == HitInit /\ [][HitNext]_vars

\* two sessions of any kind created from the manager's window and by remote
\* request, and closed in every way the manager and the overlay offer
ListNext ==
    \/ Create
    \/ Remote
    \/ RunPosted
    \/ Close

ListInit == InitWith([sessions |-> MaxSessions, events |-> PairEvents,
                      queue |-> PairQueue, shapes |-> {1}])

ListSpec == ListInit /\ [][ListNext]_vars

\* one overlay whose opacity is set from the menu and stepped with the keys
OpacityNext ==
    \/ \E s \in Sessions : \E v \in OpacityValues : set_opacity(s, v)
    \/ \E s \in Sessions : \E delta \in OpacitySteps : adjust_opacity(s, delta)
    \/ \E s \in Sessions : toggle_aspect_ratio(s)

OpacitySpec == GeomInit /\ [][OpacityNext]_vars

\* the manager's window: regions are entered and created, monitors are
\* shown, error dialogs are dismissed
XTexts == { <<"0">>, <<"x">> }
WidthTexts == { <<"1", "9", "2", "0">>, <<"3", "0", "0">>, <<"4", "4", "0">>,
               <<"0">>, <<"-", "5">>, <<>> }
HeightTexts == { <<"1", "0", "8", "0">>, <<"1", "0", "0", "0">>,
                <<" ", "1", "5", "0">>, <<"0">>, <<"4", ".", "5">> }

RegionNext ==
    \/ \E x, y \in XTexts : \E w \in WidthTexts : \E h \in HeightTexts :
           create_region_pip_entered(x, y, w, h)
    \/ create_monitor_pip
    \/ dismiss_error

RegionInit ==
    /\ pip = [s \in Sessions |-> NoPip]
    /\ thr = [s \in Sessions |-> NoThread]
    /\ ui_queue = <<>>
    /\ ui = Idle
    /\ active_pips = <<>>
    /\ windows = <<>>
    /\ heap = [d \in 1..MaxDicts |-> NoDict]
    /\ displayed_count = 0
    /\ root_alive = TRUE
    /\ os_win = [exists |-> FALSE, iconic |-> FALSE, shape |-> 1, left |-> 0]
    /\ capture_available = FALSE
    /\ events = 0
    /\ limits = [sessions |-> MaxSessions, events |-> MaxEvents,
                 queue |-> MaxQueue, shapes |-> {1}]
    /\ replies = <<>>
    /\ selector = NoSelector

RegionSpec == RegionInit /\ [][RegionNext]_vars

\* a session whose overlay the user has sized freely (maintain_aspect_ratio
\* off) holds a captured frame; the loop fits it and the UI thread draws it
FitNext ==
    \/ \E s \in Sessions : RenderFit(s)
    \/ RunPosted

FitInit ==
    /\ \E frame \in FrameSizes : \E canvas \in CanvasSizes :
           /\ pip = [s \in Sessions |->
                      IF s = 1
                      THEN [NewPip("region", 0,
                                   <<0, 0, frame[1], frame[2]>>)
                              EXCEPT !.maintain_aspect_ratio = FALSE,
                                     !.last_source_size = frame,
                                     !.geometry.w = canvas[1],
                                     !.geometry.h = canvas[2]]
                      ELSE NoPip]
           /\ thr = [s \in Sessions |->
                      IF s = 1
                      THEN [NoThread EXCEPT !.pc = "render", !.img = frame]
                      ELSE NoThread]
    /\ ui_queue = <<>>
    /\ ui = Idle
    /\ active_pips = <<1>>
    /\ windows = <<>>
    /\ heap = [d \in 1..MaxDicts |-> NoDict]
    /\ displayed_count = 1
    /\ root_alive = TRUE
    /\ os_win = [exists |-> FALSE, iconic |-> FALSE, shape |-> 1, left |-> 0]
    /\ capture_available = FALSE
    /\ events = 0
    /\ limits = [sessions |-> SoloSessions, events |-> MaxEvents,
                 queue |-> MaxQueue, shapes |-> {1}]
    /\ replies = <<>>
    /\ selector = NoSelector

FitSpec == FitInit /\ [][FitNext]_vars

\* the threads are scheduled: a capture thread that can step does step, and
\* the UI thread finishes the handler it is in
Fairness ==
    /\ \A s \in Sessions : WF_vars(CaptureThread(s))
    /\ WF_vars(CloseStop \/ CloseDestroy \/ CloseNotify \/ CloseFinish)

LiveInit == InitWith([sessions |-> SoloSessions, events |-> LiveEvents,
                      queue |-> MaxQueue, shapes |-> {1}])

LiveSpec == LiveInit /\ [][Next]_vars /\ Fairness

(* ------------------------------ properties ---------------------------- *)
\* the step of session s's capture thread that captures and handles the size
CaptureStep(s) == thr[s].pc = "capture" /\ thr'[s].pc # "capture"

\* the number of queued update_pip_window_size callbacks of session s
ResizePosts(q, s) ==
    Len(SelectSeq(q, LAMBDA e : e.cb = "update_pip_window_size" /\ e.sess = s))

\* abs(a - b) < 0.01
RatioNear(a, b) == 100 * Abs(a.n * b.d - b.n * a.d) < a.d * b.d

\* the frame the step captured has a size other than last_source_size
NewSizeSeen(s) ==
    /\ CaptureStep(s)
    /\ thr'[s].img # NoImg
    /\ thr'[s].img # pip[s].last_source_size

\* C2: when the observed source size changes but its ratio is within 0.01 of
\* the tracked ratio, the tracked ratio stays and no auto-resize is scheduled,
\* whatever the source kind and the capture strategy.
C2_NoiseRejected ==
    [][\A s \in Sessions :
          (/\ NewSizeSeen(s)
           /\ Truthy(pip[s].source_aspect_ratio)
           /\ RatioNear(Ratio(thr'[s].img[1], thr'[s].img[2]),
                        pip[s].source_aspect_ratio))
          => /\ pip'[s].source_aspect_ratio = pip[s].source_aspect_ratio
             /\ ResizePosts(ui_queue', s) = ResizePosts(ui_queue, s)]_vars

\* the capture loop handles a frame (the overlay exists) whose size is new
\* and whose ratio is more than 0.01 away from the tracked one, or none is
\* tracked
SignificantChange(s) ==
    /\ NewSizeSeen(s)
    /\ thr'[s].pc = "render"
    /\ \/ pip[s].source_aspect_ratio = NoRatio
       \/ RatioDiffers(Ratio(thr'[s].img[1], thr'[s].img[2]),
                       pip[s].source_aspect_ratio)

\* the tracked ratio becomes the frame's and, with auto-resize on, a
\* recompute of the overlay geometry is posted
RatioRenegotiated(s) ==
    /\ pip'[s].source_aspect_ratio = Ratio(thr'[s].img[1], thr'[s].img[2])
    /\ pip[s].auto_resize_on_source_change
           => ResizePosts(ui_queue', s) > ResizePosts(ui_queue, s)

\* C3: a significant change of the observed size updates the
\* tracked ratio and, with auto-resize on, schedules a recompute, for either
\* value of maintain_aspect_ratio.
C3_SignificantChange ==
    [][\A s \in Sessions : SignificantChange(s) => RatioRenegotiated(s)]_vars

\* C6: whatever the capture outcomes, a session's loop thread is alive (in
\* an iteration or in a pause) for as long as running is true: no failure
\* ends the loop or escapes it.
C6_FailuresNonFatal ==
    \A s \in Sessions :
        (pip[s].alive /\ pip[s].running)
            => thr[s].pc \in {"top", "capture", "render", "sleep33", "sleep100"}

\* a running session pausing after a capture that failed, frames having
\* been captured before
C6_Witness ==
    \E s \in Sessions :
        /\ pip[s].running
        /\ thr[s].pc = "sleep33"
        /\ thr[s].img = NoImg
        /\ pip[s].last_source_size # NoSize

\* C7: an iteration whose capture produced no frame ends with the back-off
\* pause, not with the normal one.
C7_BackoffAfterFailure ==
    \A s \in Sessions :
        (thr[s].pc \in {"sleep33", "sleep100"} /\ thr[s].img = NoImg)
            => thr[s].pc = "sleep100"

\* C8: the capture thread reads no UI-owned state (overlay window, canvas,
\* geometry) and writes none; canvas and geometry change only in steps of
\* the UI thread.
C8_UiConfinement ==
    /\ [](\A s \in Sessions : thr[s].touched = {})
    /\ [][\A s \in Sessions :
             (thr[s].pc # "none" /\ thr'[s] # thr[s])
                 => /\ pip'[s].geometry = pip[s].geometry
                    /\ pip'[s].canvas_image = pip[s].canvas_image
                    /\ pip'[s].window = pip[s].window]_vars

\* the UI thread runs the update_pip_window_size callback of session s
RunsResize(s) ==
    /\ UiReady
    /\ ui_queue # <<>>
    /\ Head(ui_queue).cb = "update_pip_window_size"
    /\ Head(ui_queue).sess = s
    /\ ui_queue' = Tail(ui_queue)
    /\ pip[s].window = "alive"

\* C9: no variable written by the capture thread is read by a UI-thread
\* handler: the ratio update_pip_window_size reads was written by the UI
\* thread.
C9_NoSharedVariable ==
    [][\A s \in Sessions :
          RunsResize(s) => pip[s].ratio_writer # "capture"]_vars

\* session s has been closed: its running flag is off
Stopped(s) == pip[s].alive /\ ~pip[s].running

\* C4: once close has set running to false it stays false, the capture loop
\* starts no iteration any more, and the loop thread ends, also when the
\* iteration in flight meets the destroyed overlay and backs off.
C4_CooperativeCancel ==
    /\ [][\A s \in Sessions : Stopped(s) => ~pip'[s].running]_vars
    /\ [][\A s \in Sessions :
             Stopped(s) => ~(thr[s].pc # "capture" /\ thr'[s].pc = "capture")]_vars
    /\ \A s \in Sessions : Stopped(s) ~> (thr[s].pc = "done")

\* a closed session whose iteration in flight has met the destroyed overlay
\* and is in the back-off pause
C4_Witness ==
    \E s \in Sessions :
        /\ Stopped(s)
        /\ pip[s].window = "destroyed"
        /\ thr[s].pc = "sleep100"
        /\ thr[s].img # NoImg

\* C5: every close sets running to false, then destroys the overlay, and
\* only then calls remove_pip, after which the session is off active_pips
\* and the displayed count is the length of the list.
C5_CloseOrder ==
    /\ [](\A s \in Sessions :
             pip[s].alive =>
                 /\ pip[s].window = "destroyed" => ~pip[s].running
                 /\ ~InList(active_pips, s) => pip[s].window = "destroyed")
    /\ [][(ui.step = 3 /\ ui'.step # 3) =>
             /\ ~pip[Head(ui.todo)].running
             /\ pip[Head(ui.todo)].window = "destroyed"
             /\ ~InList(active_pips', Head(ui.todo))
             /\ displayed_count' = Len(active_pips')]_vars

\* close_all_pips has closed two sessions: both callbacks have emptied the
\* list and refreshed the count before the handler clears the list itself
C5_Witness ==
    /\ ui.op = "close_all_pips"
    /\ ui.step = 4
    /\ \A s \in Sessions : Stopped(s) /\ pip[s].window = "destroyed"
    /\ active_pips = <<>>
    /\ displayed_count = 0

\* C10: a capture step of one session changes neither the source rectangle,
\* nor the last frame size, nor the tracked ratio of another live session.
C10_NoCrossSessionSharing ==
    [][\A a, b \in Sessions :
          (a # b /\ pip[a].running /\ pip[b].running /\ CaptureStep(a))
              => /\ heap'[pip'[b].source_data].bbox
                        = heap[pip[b].source_data].bbox
                 /\ pip'[b].last_source_size = pip[b].last_source_size
                 /\ pip'[b].source_aspect_ratio
                        = pip[b].source_aspect_ratio]_vars

\* C1: every geometry that constrain_aspect_ratio returns and that
\* update_pip_window_size applies is at least 200 wide and 150 high.
C1_MinimumSize ==
    \A s \in Sessions :
        pip[s].alive =>
            /\ pip[s].geometry.w >= MinWidth
            /\ pip[s].geometry.h >= MinHeight

\* the photos posted for session s and not yet drawn
Photos(s) ==
    {ui_queue[i].data : i \in {j \in 1..Len(ui_queue) :
                                  /\ ui_queue[j].cb = "update_canvas"
                                  /\ ui_queue[j].sess = s
                                  /\ ui_queue[j].data # NoPhoto}}

\* C11: every fitted bitmap has exactly the size of the target, and the crop
\* box it was cut with lies inside the scaled bitmap, so that no border of
\* the output is uncovered.
C11_FitCovers ==
    \A s \in Sessions : \A photo \in Photos(s) :
        /\ photo.size = <<pip[s].geometry.w, pip[s].geometry.h>>
        /\ photo.box[1] >= 0
        /\ photo.box[2] >= 0
        /\ photo.box[3] <= photo.scaled[1]
        /\ photo.box[4] <= photo.scaled[2]

\* C20: a frame whose ratio equals the ratio of the target exactly is scaled
\* to exactly the target size and cropped with offset 0 on both axes.
C20_FitRoundTrip ==
    \A s \in Sessions : \A photo \in Photos(s) :
        thr[s].img[1] * pip[s].geometry.h = pip[s].geometry.w * thr[s].img[2]
            => /\ photo.scaled = <<pip[s].geometry.w, pip[s].geometry.h>>
               /\ photo.box[1] = 0
               /\ photo.box[2] = 0

\* the step is a drag of session s with handle c under the ratio constraint
ConstrainedDrag(s, c) ==
    /\ pip[s].pressed /\ pip[s].is_resizing
    /\ pip[s].resize_corner = c
    /\ pip[s].maintain_aspect_ratio
    /\ Truthy(pip[s].source_aspect_ratio)
    /\ events' = events + 1
    /\ pip'[s].maintain_aspect_ratio = pip[s].maintain_aspect_ratio

\* h is w / r rounded to the nearest integer (either neighbour on a tie)
IsRounded(h, w, r) == 2 * Abs(h * r.n - w * r.d) <= r.n

\* C12: a drag of the east handle under the ratio constraint leaves x and y
\* as they were and returns a height that is the returned width divided by
\* the ratio, rounded, unless the height is at the 150 px floor.
C12_EastDrag ==
    [][\A s \in Sessions :
          ConstrainedDrag(s, "e")
              => /\ pip'[s].geometry.x = pip[s].geometry.x
                 /\ pip'[s].geometry.y = pip[s].geometry.y
                 /\ \/ pip'[s].geometry.h = MinHeight
                    \/ IsRounded(pip'[s].geometry.h, pip'[s].geometry.w,
                                 pip[s].source_aspect_ratio)]_vars

\* C13: a drag under the ratio constraint keeps the edge opposite to the
\* handle: the bottom edge (y + height) for a handle with north, the right
\* edge (x + width) for a handle with west, and otherwise y, respectively x.
C13_OppositeEdgeFixed ==
    [][\A s \in Sessions : \A c \in Handles :
          ConstrainedDrag(s, c)
              => LET g == pip[s].geometry
                     h == pip'[s].geometry
                 IN  /\ IF HasN(c) THEN h.y + h.h = g.y + g.h ELSE h.y = g.y
                     /\ IF HasW(c) THEN h.x + h.w = g.x + g.w
                        ELSE h.x = g.x]_vars

\* the top-left handle has been dragged: the overlay has another size and
\* another origin, and its bottom-right corner is where it was created
C13_Witness ==
    \E s \in Sessions :
        /\ pip[s].is_resizing /\ pip[s].resize_corner = "nw"
        /\ pip[s].maintain_aspect_ratio
        /\ pip[s].geometry.w # InitialWidth
        /\ pip[s].geometry.x # InitialX
        /\ pip[s].geometry.y # InitialY
        /\ pip[s].geometry.x + pip[s].geometry.w = InitialX + InitialWidth
        /\ events = 1

\* the size the overlay is to start with for a source declared w x h
ExpectedInitialSize(w, h) ==
    LET height == (InitialWidth * h) \div w
    IN  IF height < MinHeight
        THEN <<(MinHeight * w) \div h, MinHeight>>
        ELSE <<InitialWidth, height>>

\* C14: a session constructed on a source of positive declared width and
\* height starts 400 wide and trunc(400 / ratio) high, or, when that is
\* under 150, 150 high and trunc(150 * ratio) wide; it is at least 200 wide
\* and 150 high, and 400x225 for a 1920x1080 source.
C14_InitialSizing ==
    [][\A s \in Sessions :
          (~pip[s].alive /\ pip'[s].alive
              /\ pip'[s].rect[3] > 0 /\ pip'[s].rect[4] > 0)
              => LET g == pip'[s].geometry
                     e == ExpectedInitialSize(pip'[s].rect[3], pip'[s].rect[4])
                 IN  /\ <<g.w, g.h>> = e
                     /\ g.w >= MinWidth /\ g.h >= MinHeight
                     /\ (pip'[s].rect[3] = MonitorRect[3]
                           /\ pip'[s].rect[4] = MonitorRect[4])
                            => (g.w = InitialWidth /\ g.h = 225)]_vars

\* some entry does not hold a number, or the width or the height entered is
\* not positive
InvalidRegion(x, y, w, h) ==
    \/ ~ParseInt(x).ok \/ ~ParseInt(y).ok
    \/ ~ParseInt(w).ok \/ ~ParseInt(h).ok
    \/ ParseInt(w).value <= 0 \/ ParseInt(h).value <= 0

\* C16: create_region_pip on entries of which one is not a number, or with
\* a width or height that is not positive, opens an error dialog and
\* leaves the sessions, the capture threads, active_pips and the displayed
\* count as they were.
C16_InvalidRegionRejected ==
    [][\A x, y \in XTexts : \A w \in WidthTexts : \A h \in HeightTexts :
          (InvalidRegion(x, y, w, h) /\ create_region_pip_entered(x, y, w, h))
              => /\ ui'.op \in ErrorDialogs
                 /\ UNCHANGED <<pip, thr, active_pips, displayed_count,
                                ui_queue>>]_vars

\* the dialog for a width or height that is not positive is open while one
\* session, created before, is still the only one
C16_Witness ==
    /\ ui.op = NotPositive
    /\ Len(active_pips) = 1
    /\ displayed_count = 1
    /\ thr[2].pc = "none"

\* the sessions constructed from the window_data d
CreatedFrom(d) ==
    {s \in Sessions : /\ pip[s].alive
                      /\ pip[s].source_type = "window"
                      /\ pip[s].source_data = d}

\* C17: every request answered with 'success' has exactly one window
\* session constructed from its window_data, and that session has been
\* appended to active_pips unless it was closed since.
C17_RemoteCreation ==
    \A i \in 1..Len(replies) :
        replies[i].status = "success"
            => /\ Cardinality(CreatedFrom(replies[i].window_data)) = 1
               /\ \A s \in CreatedFrom(replies[i].window_data) :
                      InList(active_pips, s) \/ pip[s].window = "destroyed"

\* session s captures its window through the native handle
Direct(s) ==
    /\ pip[s].alive
    /\ pip[s].source_type = "window"
    /\ capture_available
    /\ heap[pip[s].source_data].hwnd # 0

\* C18: a capture tick of a session with a native handle yields the
\* 'Window Minimized' placeholder when the window exists and is iconified
\* and no frame when the handle no longer refers to a window; the tick
\* leaves running and active_pips as they were, and a session stops running
\* or leaves active_pips only inside a closing handler of the UI thread.
C18_SourceLossKeepsSession ==
    [][\A s \in Sessions :
          /\ (CaptureStep(s) /\ Direct(s))
                => /\ (os_win.exists /\ os_win.iconic)
                          => thr'[s].img = Placeholder
                   /\ ~os_win.exists => thr'[s].img = NoImg
                   /\ pip'[s].running = pip[s].running
                   /\ active_pips' = active_pips
          /\ (pip[s].running /\ ~pip'[s].running) => ui # Idle
          /\ (InList(active_pips, s) /\ ~InList(active_pips', s))
                => ui # Idle]_vars

\* the window was minimized and then closed: the session has shown the
\* placeholder, its last tick had no frame, and it still runs and is listed
C18_Witness ==
    \E s \in Sessions :
        /\ Direct(s)
        /\ ~os_win.exists /\ os_win.iconic /\ os_win.shape = 1
        /\ pip[s].last_source_size = Placeholder
        /\ thr[s].pc = "sleep33" /\ thr[s].img = NoImg
        /\ pip[s].running
        /\ InList(active_pips, s)
        /\ ui = Idle

\* C19: confirm_selection on a selection at least 10 wide and 10 high sets
\* the result to the selected rectangle, closes the overlay and invokes the
\* callback with it; on a smaller one it shows the error, leaves the result
\* unset and the overlay open, and does not invoke the callback.
C19_SelectorMinimum ==
    [][confirm_selection
         => LET width  == Abs(selector.current_x - selector.start_x)
                height == Abs(selector.current_y - selector.start_y)
                rect   == Result(Min(selector.start_x, selector.current_x)
                                     + selector.screen_offset_x,
                                 Min(selector.start_y, selector.current_y)
                                     + selector.screen_offset_y,
                                 width, height)
            IN  IF width >= 10 /\ height >= 10
                THEN /\ selector'.result = rect
                     /\ ~selector'.root
                     /\ selector'.called = Append(selector.called, rect)
                ELSE /\ selector'.error
                     /\ selector'.result = NoResult
                     /\ selector'.root
                     /\ selector'.called = selector.called]_vars

\* C15: whenever constrain_aspect_ratio or update_pip_window_size divides,
\* the ratio it reads is known and not zero, and whenever the capture thread
\* fits a frame, the frame and the canvas have a positive height.
C15_NoUndefinedDivision ==
    [][/\ (ui.op = "handle_resize" /\ ui' = Idle)
             => Truthy(pip[ui.todo[1]].source_aspect_ratio)
       /\ (ui.op = "update_pip_window_size" /\ ui' = Idle)
             => Truthy(pip[ui.todo[1]].source_aspect_ratio)
       /\ \A s \in Sessions :
             (thr[s].pc = "render" /\ Len(ui_queue') > Len(ui_queue))
                 => /\ thr[s].img[1] > 0 /\ thr[s].img[2] > 0
                    /\ pip[s].geometry.h > 0]_vars

\* the step is a resize drag of session s with handle c while the ratio
\* constraint is off or no ratio is known
UnconstrainedDrag(s, c) ==
    /\ pip[s].pressed /\ pip[s].is_resizing
    /\ pip[s].resize_corner = c
    /\ ~(pip[s].maintain_aspect_ratio /\ Truthy(pip[s].source_aspect_ratio))
    /\ events' = events + 1
    /\ pip'[s].maintain_aspect_ratio = pip[s].maintain_aspect_ratio

InOpacityRange(x) == ~FloatAbove(OpacityMin, x) /\ ~FloatAbove(x, OpacityMax)

\* the bound of [0.1, 1.0] nearest to v, v itself when it lies inside
NearestOpacity(v) ==
    IF v.neg \/ FloatAbove(OpacityMin, v.v) THEN OpacityMin
    ELSE IF FloatAbove(v.v, OpacityMax) THEN OpacityMax
    ELSE v.v

\* C22: an overlay's opacity is 1.0 when it is created and lies in
\* [0.1, 1.0] after every set_opacity and adjust_opacity; set_opacity(v)
\* stores v clamped to the nearest bound, and adjust_opacity(+0.1) at 1.0 and
\* adjust_opacity(-0.1) at 0.1 leave the opacity at that bound.
C22_OpacityRange ==
    /\ \A s \in Sessions :
           pip[s].window = "alive" => pip[s].opacity = OpacityMax
    /\ [](\A s \in Sessions :
              pip[s].window = "alive" => InOpacityRange(pip[s].opacity))
    /\ [][\A s \in Sessions :
            /\ \A v \in OpacityValues :
                   set_opacity(s, v) => pip'[s].opacity = NearestOpacity(v)
            /\ \A delta \in OpacitySteps :
                   /\ adjust_opacity(s, delta)
                   /\ pip[s].opacity = (IF delta.neg THEN OpacityMin
                                        ELSE OpacityMax)
                   => pip'[s].opacity = pip[s].opacity]_vars

\* repeated presses of the - key have brought the opacity to a double just
\* above 0.1 that is no level of the menu
C22_Witness ==
    \E s \in Sessions :
        /\ pip[s].window = "alive"
        /\ pip[s].opacity \notin OpacityLevels
        /\ FloatAbove(FloatDiv(3, 20), pip[s].opacity)

\* the calls capture_source makes on the title-lookup path
DynamicCalls == <<"getWindowsWithTitle", "screenshot">>
\* the positions of call c in the sequence calls
CallsOf(calls, c) == {i \in 1..Len(calls) : calls[i] = c}

\* C23: capturing a Window source takes the direct handle path exactly when
\* window capture is available and the source has a handle; on that path the
\* handle is validated and the minimized test made before any capture API,
\* none is called for a vanished or minimized window, PrintWindow comes
\* first and BitBlt follows only a PrintWindow that produced no image; the
\* title-lookup region grab is used only without handle or capability, and
\* whatever the lookup and the grab do the capture thread goes on.
C23_StrategyOrder ==
    [][\A s \in Sessions : \A lookup_ok, ok, bitblt_ok \in BOOLEAN :
          /\ pip[s].source_type = "window"
          /\ Capture(s, lookup_ok, ok, bitblt_ok)
          => LET direct == capture_available
                               /\ heap[pip[s].source_data].hwnd # 0
                 calls == thr'[s].calls
                 prints == CallsOf(calls, "PrintWindow")
                 blits == CallsOf(calls, "BitBlt")
             IN  /\ direct <=> (calls # <<>> /\ calls[1] = "IsWindow")
                 /\ (~direct) <=> calls = DynamicCalls
                 /\ direct =>
                      /\ \A i \in prints \cup blits :
                             /\ \E j \in 1..(i - 1) : calls[j] = "IsWindow"
                             /\ \E j \in 1..(i - 1) : calls[j] = "IsIconic"
                      /\ (~os_win.exists \/ os_win.iconic)
                             => prints \cup blits = {}
                      /\ \A i \in blits : (i - 1) \in prints
                      /\ blits # {} => ~ok
                 /\ (~direct) => thr'[s].pc \in {"render", "sleep33",
                                                 "sleep100"}]_vars

\* a frame obtained by BitBlt after PrintWindow produced none
C23_Witness ==
    \E s \in Sessions :
        /\ pip[s].source_type = "window"
        /\ CallsOf(thr[s].calls, "BitBlt") # {}
        /\ thr[s].img \notin {NoImg, Placeholder}

\* the event loop runs the update_pip_window_size posted for session s
MatchStep(s) ==
    /\ ui_queue # <<>>
    /\ Head(ui_queue).cb = "update_pip_window_size"
    /\ Head(ui_queue).sess = s
    /\ RunPosted

\* C24: update_pip_window_size keeps the width and sets the height to
\* max(150, trunc(width / ratio)); only when that height is more than half
\* the current height away from it is the width set to
\* max(200, trunc(height * ratio)) and the height to trunc(width / ratio) of
\* the new width; x and y stay, and nothing changes when no ratio is known
\* or the overlay is gone.
C24_ResizeToMatch ==
    [][\A s \in Sessions :
          MatchStep(s)
              => LET g == pip[s].geometry
                     r == pip[s].source_aspect_ratio
                     h == pip'[s].geometry
                     kept == Max(150, DivRatio(g.w, r))
                     wide == Max(200, MulRatio(g.h, r))
                 IN  IF pip[s].window = "alive" /\ Truthy(r)
                     THEN /\ h.x = g.x /\ h.y = g.y
                          /\ IF 2 * Abs(kept - g.h) > g.h
                             THEN h.w = wide /\ h.h = DivRatio(wide, r)
                             ELSE h.w = g.w /\ h.h = kept
                     ELSE pip' = pip]_vars

\* the overlay of a landscape window was narrowed to the 200 minimum after
\* the window took a portrait shape
C24_Witness ==
    \E s \in Sessions :
        /\ pip[s].window = "alive"
        /\ pip[s].source_type = "window"
        /\ pip[s].geometry.w = 200
        /\ pip[s].geometry.h > 600

Corners == {"ne", "nw", "se", "sw"}

\* C25: in a ratio-constrained corner drag the width drives when the
\* proposed width differs from the current one by more than the proposed
\* height does from the current height: the height is trunc(width / ratio)
\* floored at 150 and the width re-derived from it; otherwise, equal changes
\* included, the height drives: the width is trunc(height * ratio) floored
\* at 200 and the height re-derived from it.
C25_CornerDrivingAxis ==
    [][\A s \in Sessions : \A c \in Corners :
          ConstrainedDrag(s, c)
              => LET g == pip[s].geometry
                     r == pip[s].source_aspect_ratio
                     h == pip'[s].geometry
                     deltax == pip'[s].resize_start_x - pip[s].resize_start_x
                     deltay == pip'[s].resize_start_y - pip[s].resize_start_y
                     proposed_w == Max(200, IF HasE(c) THEN g.w + deltax
                                            ELSE g.w - deltax)
                     proposed_h == Max(150, IF HasS(c) THEN g.h + deltay
                                            ELSE g.h - deltay)
                     from_w == Max(150, DivRatio(proposed_w, r))
                     from_h == Max(200, MulRatio(proposed_h, r))
                 IN  IF Abs(proposed_w - g.w) > Abs(proposed_h - g.h)
                     THEN h.h = from_w /\ h.w = MulRatio(from_w, r)
                     ELSE h.w = from_h /\ h.h = DivRatio(from_h, r)]_vars

\* a 400x225 overlay of a 1920x1080 source dragged by its south-east corner
\* 130 px both ways: the equal changes let the proposed height 355 drive
C25_Witness ==
    \E s \in Sessions :
        /\ pip[s].pressed /\ pip[s].is_resizing
        /\ pip[s].resize_corner = "se"
        /\ pip[s].maintain_aspect_ratio
        /\ pip[s].source_aspect_ratio = Ratio(1920, 1080)
        /\ events = 1
        /\ pip[s].geometry.w = 631 /\ pip[s].geometry.h = 354

\* the point (x, y) of a width x height overlay lies within 20 px of both
\* edges of corner c, within 10 px of edge e
InCornerZone(c, x, y, width, height) ==
    /\ IF HasE(c) THEN width - x <= 20 ELSE x <= 20
    /\ IF HasS(c) THEN height - y <= 20 ELSE y <= 20
InEdgeZone(e, x, y, width, height) ==
    CASE e = "n" -> y <= 10
      [] e = "s" -> height - y <= 10
      [] e = "e" -> width - x <= 10
      [] e = "w" -> x <= 10
CornerOrder == <<"se", "sw", "ne", "nw">>
EdgeOrder == <<"n", "s", "e", "w">>

\* C26: a press is given the first of the corners se, sw, ne, nw whose 20 px
\* zone holds the point, whether or not a 10 px edge zone holds it too;
\* failing that the first of the edges n, s, e, w within 10 px of the point;
\* and no handle exactly when the point is in no corner zone and more than
\* 10 px from every edge.
C26_HitTestPriority ==
    [][\A s \in Sessions : \A pt \in HitPoints(pip[s].geometry) :
          on_click(s, pt[1], pt[2])
              => LET g == pip[s].geometry
                     corners == {i \in 1..4 :
                                   InCornerZone(CornerOrder[i], pt[1], pt[2],
                                                g.w, g.h)}
                     edges == {i \in 1..4 :
                                 InEdgeZone(EdgeOrder[i], pt[1], pt[2],
                                            g.w, g.h)}
                     found == pip'[s].resize_corner
                 IN  /\ \A i \in corners :
                            (\A j \in corners : i <= j)
                                => found = CornerOrder[i]
                     /\ corners = {} =>
                            \A i \in edges :
                                (\A j \in edges : i <= j)
                                    => found = EdgeOrder[i]
                     /\ found = NoCorner <=> (corners = {} /\ edges = {})]_vars

\* a press 20 px from the right edge and 10 px from the bottom edge, in the
\* south edge zone and in the south-east corner zone, has taken the corner
C26_Witness ==
    \E s \in Sessions :
        /\ pip[s].pressed
        /\ pip[s].resize_corner = "se"
        /\ pip[s].resize_start_x = pip[s].geometry.x + pip[s].geometry.w - 20
        /\ pip[s].resize_start_y = pip[s].geometry.y + pip[s].geometry.h - 10

\* the step is a drag of session s: the button is down before and after,
\* and a pointer event was handled that is no menu command
DragStep(s) ==
    /\ pip[s].pressed /\ pip'[s].pressed
    /\ events' = events + 1
    /\ pip'[s].maintain_aspect_ratio = pip[s].maintain_aspect_ratio

C28_RemoteErrorReplies ==
    [][\A data \in RemoteData : \A app \in BOOLEAN :
          /\ data.action # "create_window_pip" \/ ~data.json \/ ~app
          /\ handle(data, app)
          => /\ Len(replies') = Len(replies) + 1
             /\ replies'[Len(replies')].status = "error"
             /\ replies'[Len(replies')].message # ""
             /\ ui_queue' = ui_queue
             /\ heap' = heap
             /\ pip' = pip /\ active_pips' = active_pips]_vars

\* the three kinds of rejected request have each been answered
C28_Witness ==
    \E i, j, k \in 1..Len(replies) :
        /\ replies[i].status = "error"
        /\ replies[i].message = "Unknown action"
        /\ replies[j].message = "JSONDecodeError"
        /\ replies[k].message = "App instance not available"

\* no handler of the UI thread is under way
Quiescent == ui.op \in {"idle", "exited"}
\* session s was created, and was closed since
Created(s) == pip[s].alive
Closed(s) == pip[s].alive /\ ~pip[s].running

\* C29: active_pips never lists a session twice; between the handlers of
\* the UI thread it lists exactly the sessions created and not closed, each
\* with running true; the close that close_pip starts removes the session
\* in its remove_pip callback, once, and the manager's own removal then
\* finds nothing to remove and ends without error; when close_all_pips ends
\* the list is empty and no session created so far is running.
C29_ActiveList ==
    /\ [](\A i, j \in 1..Len(active_pips) :
              active_pips[i] = active_pips[j] => i = j)
    /\ [](Quiescent =>
              \A s \in Sessions :
                  InList(active_pips, s) <=> (Created(s) /\ pip[s].running))
    /\ [][/\ (ui.op = "close_pip" /\ CloseNotify)
               => /\ InList(active_pips, Head(ui.todo))
                  /\ Len(active_pips') = Len(active_pips) - 1
                  /\ ~InList(active_pips', Head(ui.todo))
          /\ (ui.op = "close_pip" /\ CloseFinish)
               => /\ active_pips' = active_pips
                  /\ ui' = Idle
          /\ (ui.op = "close_all_pips" /\ CloseFinish)
               => /\ active_pips' = <<>>
                  /\ ui' = Idle
                  /\ \A s \in Sessions : Created(s) => ~pip'[s].running]_vars

\* one session has been closed and its overlay destroyed, and the other
\* session, created and running, is the only one listed
C29_Witness ==
    /\ Quiescent
    /\ \E s, t \in Sessions :
           /\ s # t
           /\ Closed(s) /\ pip[s].window = "destroyed"
           /\ Created(t) /\ pip[t].running
           /\ active_pips = <<t>>


\* the capture loop handles the first placeholder frame of session s: the
\* window, captured through its handle, is iconified, and the tracked ratio
\* is more than 0.01 away from 400/300
MinimizedSeen(s) ==
    /\ CaptureStep(s) /\ Direct(s)
    /\ os_win.exists /\ os_win.iconic
    /\ thr'[s].pc = "render"
    /\ pip[s].last_source_size # Placeholder
    /\ Truthy(pip[s].source_aspect_ratio)
    /\ RatioDiffers(pip[s].source_aspect_ratio,
                    Ratio(PlaceholderWidth, PlaceholderHeight))

\* the capture loop handles the first real frame after placeholder frames,
\* its ratio more than 0.01 away from the tracked one
RestoredSeen(s) ==
    /\ CaptureStep(s) /\ Direct(s)
    /\ os_win.exists /\ ~os_win.iconic
    /\ thr'[s].pc = "render"
    /\ pip[s].last_source_size = Placeholder
    /\ thr'[s].img # Placeholder
    /\ Truthy(pip[s].source_aspect_ratio)
    /\ RatioDiffers(Ratio(thr'[s].img[1], thr'[s].img[2]),
                    pip[s].source_aspect_ratio)

\* the frame becomes last_source_size, its ratio the tracked ratio and, with
\* both toggles on, a recompute of the overlay geometry is posted
FrameTakenUp(s) ==
    /\ pip'[s].last_source_size = thr'[s].img
    /\ pip'[s].source_aspect_ratio = Ratio(thr'[s].img[1], thr'[s].img[2])
    /\ (pip[s].maintain_aspect_ratio /\ pip[s].auto_resize_on_source_change)
           => ResizePosts(ui_queue', s) > ResizePosts(ui_queue, s)

\* C30: the placeholder frame of a minimized window is handled as a frame
\* of 400x300: it becomes last_source_size, 400/300 becomes the tracked
\* ratio and, with maintain_aspect_ratio and auto_resize_on_source_change
\* on, a resize of the overlay is scheduled; the first real frame after the
\* window is restored is taken up the same way.
C30_PlaceholderSizeChange ==
    [][\A s \in Sessions :
          /\ MinimizedSeen(s)
                => /\ thr'[s].img = Placeholder
                   /\ FrameTakenUp(s)
          /\ RestoredSeen(s) => FrameTakenUp(s)]_vars

============================================================================
